---------------------------- MODULE Spec2Model ----------------------------
(***************************************************************************)
(* A model of yatta's live HLS/CMAF packager:                              *)
(*   - the per-rendition segment publisher (src/src/hlscmaf.rs),           *)
(*   - the master playlist barrier (src/src/main.rs, src/src/utils.rs),    *)
(*   - the AV1 codec string derivation (src/src/utils.rs).                 *)
(*                                                                         *)
(* Time is counted in ticks of 1/TicksPerSecond second; the code counts    *)
(* nanoseconds and only adds, subtracts and compares them.  Option<T> is   *)
(* modelled as a sequence of length 0 (None) or 1 (Some).  Strings that    *)
(* the code formats are sequences of one-character strings.                *)
(***************************************************************************)
EXTENDS Integers, Sequences, FiniteSets, TLC

VARIABLES
    \* StreamState (hlscmaf.rs), one rendition
    segments,           \* VecDeque<Segment>, oldest first
    trimmed_segments,   \* VecDeque<UnreffedSegment>
    start_date_time,    \* Option<DateTime<Utc>>
    start_time,         \* Option<ClockTime>
    media_sequence,     \* u64
    segment_index,      \* u32
    \* storage behind the FilePublisher of that rendition
    header_file,        \* Option<bytes> of init.mp4
    segment_files,      \* set of <<path, bytes>> present on disk
    manifest_file,      \* Option<MediaPlaylist> of manifest.m3u8
    removed,            \* trimmed segments whose file was removed, in order
    evicted,            \* paths popped from the front of segments, in order
    io_log,             \* storage operations of the latest callback, in order
    poisoned,           \* the callback panicked (state mutex poisoned)
    \* the upstream muxer and the clocks
    n_samples,          \* fragment groups delivered so far
    last_sample,        \* the buffer list of the latest sample pulled
    last_pts,           \* Option: pts of the last media group delivered
    pts_monotone,       \* the media pts delivered so far never decreased
    n_jumps,            \* media groups delivered that did not follow contiguously
    \* State (main.rs), shared by all renditions
    video_streams,      \* Vec<VideoStream>, names only
    audio_streams,      \* Vec<AudioStream>, names only
    all_mimes,          \* HashMap<String, String> as a set of <<name, mime>>
    wrote_manifest,     \* bool
    master_file,        \* Option<MasterPlaylist> of the master manifest
    master_writes,      \* number of times write_manifest created the file
    state_poisoned,     \* a probe panicked holding the State mutex
    n_reports,          \* codec reports delivered so far
    \* compute_av1_mime (utils.rs)
    codec_data,         \* &[u8]
    colorimetry,        \* Option<VideoColorimetry>
    mime_out,           \* the outcome of the call: the returned String, or a panic
    \* VideoStream::setup and AudioStream::setup (video.rs, audio.rs)
    fragment_duration_nanos,  \* the argument the setups are called with, in ticks
    mux_fragment_duration,    \* "fragment-duration" of each cmafmux built, in order
    \* the probes of the renditions, each on its own streaming thread (utils.rs)
    pc,                 \* where the probe of each rendition is in its Caps arm
    lock_holder,        \* Option: the rendition whose probe holds the State mutex
    completer,          \* Option: the rendition whose insert completed all_mimes
    writer,             \* Option: the rendition whose probe ran write_manifest
    \* the target duration of update_manifest at nanosecond resolution
    newest_duration,    \* ClockTime: duration of state.segments.back()
    target_duration_f32 \* Option: the target_duration computed from it

streamVars == <<segments, trimmed_segments, start_date_time, start_time,
                media_sequence, segment_index, header_file, segment_files,
                manifest_file, removed, evicted, io_log, poisoned, n_samples,
                last_sample, last_pts, pts_monotone, n_jumps>>
coordVars == <<video_streams, audio_streams, all_mimes, wrote_manifest,
               master_file, master_writes, state_poisoned, n_reports>>
mimeVars == <<codec_data, colorimetry, mime_out>>
setupVars == <<fragment_duration_nanos, mux_fragment_duration>>
probeVars == <<pc, lock_holder, completer, writer>>
durationVars == <<newest_duration, target_duration_f32>>
vars == <<streamVars, coordVars, mimeVars, setupVars, probeVars, durationVars>>

----------------------------------------------------------------------------
(* Bounds of the model *)

\* fragment groups delivered to one rendition's callback
MaxGroups == 8
\* fragments whose pts does not continue the fragment before by its duration
MaxJumps == 2
\* media groups of a stream long enough for its first files to be deleted
MaxLongGroups == 17
\* whole seconds of the longest segment whose duration is converted
MaxSeconds == 4
\* codec reports delivered to the coordinator
MaxReports == 6
\* H.265 and H.264 renditions of the ladder (main.rs configures 10 and 9)
MaxH265 == 2
MaxH264 == 1

(* Program constants *)

\* ticks per second of the model's time unit
TicksPerSecond == 2
\* "Arbitrary 5 segments window"
WindowSize == 5
\* TimeDelta::try_seconds(20)
RetentionSeconds == 20
\* Some(7) in MediaPlaylist and MasterPlaylist
PlaylistVersion == 7
\* ClockTime::SECOND, in nanoseconds
NanosPerSecond == 1000000000

None == <<>>
Some(v) == <<v>>
IsSome(o) == Len(o) = 1
IsNone(o) == Len(o) = 0
Unwrap(o) == o[1]

Front(q) == q[1]
Back(q) == q[Len(q)]
PopFront(q) == SubSeq(q, 2, Len(q))

----------------------------------------------------------------------------
(* Number formatting, as format!("{}"), format!("{:02}"), format!("{:05}") *)

DigitChar == <<"0", "1", "2", "3", "4", "5", "6", "7", "8", "9">>

RECURSIVE Decimal(_)
Decimal(n) ==
    IF n < 10 THEN <<DigitChar[n + 1]>>
    ELSE Decimal(n \div 10) \o <<DigitChar[(n % 10) + 1]>>

RECURSIVE PadLeft(_, _)
PadLeft(s, width) == IF Len(s) >= width THEN s ELSE PadLeft(<<"0">> \o s, width)

Format(n) == Decimal(n)
Format02(n) == PadLeft(Decimal(n), 2)
Format05(n) == PadLeft(Decimal(n), 5)


----------------------------------------------------------------------------
(* The rendition's StreamState and its storage, as one record *)

Stream ==
    [segments |-> segments, trimmed_segments |-> trimmed_segments,
     start_date_time |-> start_date_time, start_time |-> start_time,
     media_sequence |-> media_sequence, segment_index |-> segment_index,
     header_file |-> header_file, segment_files |-> segment_files,
     manifest_file |-> manifest_file, removed |-> removed,
     evicted |-> evicted,
     io_log |-> io_log, poisoned |-> poisoned]

\* a variant of Panic: the failure goes unnoticed and the stream carries on
Panic_unnoticed(s) == s

\* a failed assert!, unwrap() or expect(): the callback unwinds where it is
Panic(s) == [s EXCEPT !.poisoned = TRUE]

\* the 20 seconds of retention, in ticks
RetentionTicks == RetentionSeconds * TicksPerSecond

\* a ClockTime: whole seconds and the nanoseconds above them
ClockTime(seconds, nanos) == [seconds |-> seconds, nanos |-> nanos]

\* a duration of whole ticks as a ClockTime
ClockTimeOfTicks(d) ==
    ClockTime(d \div TicksPerSecond,
              (d % TicksPerSecond) * (NanosPerSecond \div TicksPerSecond))

\* ct < seconds s + nanos ns
less_than(ct, s, ns) == ct.seconds < s \/ (ct.seconds = s /\ ct.nanos < ns)

\* the distance between neighbouring f32 values at the nanosecond count of
\* ct: 24 bits of significand, so 1 below 2^24 ns and doubling with every
\* power of two above (durations below 2^33 ns)
f32_ulp(ct) ==
    IF less_than(ct, 0, 16777216) THEN 1
    ELSE IF less_than(ct, 0, 33554432) THEN 2
    ELSE IF less_than(ct, 0, 67108864) THEN 4
    ELSE IF less_than(ct, 0, 134217728) THEN 8
    ELSE IF less_than(ct, 0, 268435456) THEN 16
    ELSE IF less_than(ct, 0, 536870912) THEN 32
    ELSE IF less_than(ct, 1, 73741824) THEN 64
    ELSE IF less_than(ct, 2, 147483648) THEN 128
    ELSE IF less_than(ct, 4, 294967296) THEN 256
    ELSE 512

\* nanoseconds as f32: the nearest multiple of f32_ulp, ties to the even
\* significand; every ulp up to 512 divides NanosPerSecond, so the rounding
\* only moves the nanos
as_f32(ct) ==
    LET ulp == f32_ulp(ct)
        q == ct.nanos \div ulp
        r == ct.nanos % ulp
        odd == (ct.seconds * ((NanosPerSecond \div ulp) % 2) + q) % 2 = 1
        up == 2 * r > ulp \/ (2 * r = ulp /\ odd)
        nanos == (q + (IF up THEN 1 ELSE 0)) * ulp
    IN IF nanos = NanosPerSecond THEN ClockTime(ct.seconds + 1, 0)
       ELSE ClockTime(ct.seconds, nanos)

\* the largest power of two that is at most n, for n >= 1
RECURSIVE pow2_floor(_)
pow2_floor(n) == IF n < 2 THEN 1 ELSE 2 * pow2_floor(n \div 2)

\* a variant of quotient_ceil: the seconds are truncated
quotient_truncated(ct) == ct.seconds

\* (ct / ClockTime::SECOND as f32).ceil() for a ct that is an f32: the f32
\* quotient is the whole number below it when the fraction is at most half
\* the distance between f32 values there (2^-24 of its power of two), and
\* otherwise lies above it
quotient_ceil(ct) ==
    IF ct.nanos = 0 THEN ct.seconds
    ELSE IF ct.seconds = 0 THEN 1
    ELSE IF ct.nanos <= NanosPerSecond \div (16777216 \div pow2_floor(ct.seconds))
    THEN ct.seconds
    ELSE ct.seconds + 1

\* ClockTime::seconds_f32().ceil()
seconds_f32_ceil(ct) == quotient_ceil(as_f32(ct))

\* seconds_f32().ceil() of a duration of whole ticks
CeilSeconds(d) == seconds_f32_ceil(ClockTimeOfTicks(d))

\* a variant of publish_header: the header is written the first time only
publish_header_only_first(s, path, contents) ==
    IF IsSome(s.header_file) THEN s
    ELSE [s EXCEPT !.header_file = Some(contents),
                   !.io_log = Append(@, <<"header", path>>)]

(* Publisher for FilePublisher: std::fs::write under the rendition's path *)
publish_header(s, path, contents) ==
    [s EXCEPT !.header_file = Some(contents),
              !.io_log = Append(@, <<"header", path>>)]

publish_segment(s, path, contents) ==
    [s EXCEPT !.segment_files =
                  {f \in @ : f[1] # path} \cup {<<path, contents>>},
              !.io_log = Append(@, <<"segment", path>>)]

publish_manifest(s, path, contents) ==
    [s EXCEPT !.manifest_file = Some(contents),
              !.io_log = Append(@, <<"manifest", path>>)]

FileExists(s, path) == \E f \in s.segment_files : f[1] = path

\* a variant of remove_file: the removal is reported and the file stays
remove_file_leaves_file(s, path) ==
    [s EXCEPT !.io_log = Append(@, <<"remove", path>>)]

\* std::fs::remove_file
remove_file(s, path) ==
    [s EXCEPT !.segment_files = {f \in @ : f[1] # path},
              !.io_log = Append(@, <<"remove", path>>)]

----------------------------------------------------------------------------
(* trim_segments *)

\* variants of the definitions below, as a slip in the code would make them
window_full_one_late(s) == Len(s.segments) > WindowSize + 1
media_sequence_not_bumped(n) == n
due_or_equal(entry, oldest) == entry.removal_time <= oldest.date_time
due_compares_entry_with_itself(entry, oldest) ==
    entry.removal_time < entry.removal_time
due_margin_twice(entry, oldest) ==
    entry.removal_time + RetentionSeconds * TicksPerSecond < oldest.date_time
removal_time_after_segment_end(segment) ==
    segment.date_time + segment.duration + RetentionTicks

\* while state.segments.len() > 5
window_full(s) == Len(s.segments) > WindowSize

\* state.media_sequence += 1
bump_media_sequence(n) == n + 1

\* removal_time: segment.date_time + 20 s
removal_time_of(segment) == segment.date_time + RetentionTicks

\* segment.removal_time < state.segments.front().unwrap().date_time
due(entry, oldest) == entry.removal_time < oldest.date_time

RECURSIVE evict_loop_push_front(_)
evict_loop_push_front(s) ==
    IF window_full(s)
    THEN LET segment == Front(s.segments)
         IN evict_loop_push_front(
                [s EXCEPT !.segments = PopFront(@),
                          !.evicted = Append(@, segment.path),
                          !.media_sequence = bump_media_sequence(@),
                          !.trimmed_segments =
                              <<[removal_time |-> removal_time_of(segment),
                                 path |-> segment.path]>> \o @])
    ELSE s

RECURSIVE evict_loop(_)
evict_loop(s) ==
    IF window_full(s)
    THEN LET segment == Front(s.segments)
         IN evict_loop(
                [s EXCEPT !.segments = PopFront(@),
                          !.evicted = Append(@, segment.path),
                          !.media_sequence = bump_media_sequence(@),
                          !.trimmed_segments =
                              Append(@, [removal_time |-> removal_time_of(segment),
                                         path |-> segment.path])])
    ELSE s

RECURSIVE delete_loop(_, _)
delete_loop(s, fail) ==
    IF s.trimmed_segments = <<>> THEN s
    ELSE IF s.segments = <<>> THEN Panic(s)
    ELSE IF due(Front(s.trimmed_segments), Front(s.segments))
    THEN LET segment == Front(s.trimmed_segments)
             s1 == [s EXCEPT !.trimmed_segments = PopFront(@)]
         IN IF fail = "remove" \/ ~FileExists(s1, segment.path)
            THEN Panic(s1)
            ELSE delete_loop([remove_file(s1, segment.path)
                                 EXCEPT !.removed = Append(@, segment)], fail)
    ELSE s

trim_segments(s, fail) == delete_loop(evict_loop(s), fail)

----------------------------------------------------------------------------
(* update_manifest *)

\* variants of the definitions below, as a slip in the code would make them
MediaSegmentOf_map_everywhere(idx, segment) ==
    [uri |-> segment.path,
     duration |-> segment.duration,
     map |-> Some("init.mp4"),
     program_date_time |-> Some(segment.date_time)]

MediaSegmentOf(idx, segment) ==
    [uri |-> segment.path,
     duration |-> segment.duration,
     map |-> IF idx = 1 THEN Some("init.mp4") ELSE None,
     program_date_time |-> IF idx = 1 THEN Some(segment.date_time) ELSE None]

MediaPlaylistOf(s) ==
    [version |-> Some(PlaylistVersion),
     target_duration |->
         IF s.segments = <<>> THEN 0 ELSE CeilSeconds(Back(s.segments).duration),
     media_sequence |-> s.media_sequence,
     segments |-> [idx \in 1..Len(s.segments) |->
                       MediaSegmentOf(idx, s.segments[idx])],
     end_list |-> FALSE,
     independent_segments |-> TRUE]

\* a variant of update_manifest: the playlist is published before trimming
update_manifest_then_trim(s, fail) ==
    IF fail = "manifest" THEN Panic(s)
    ELSE trim_segments(publish_manifest(s, "manifest.m3u8", MediaPlaylistOf(s)), fail)

update_manifest(s, fail) ==
    LET t == trim_segments(s, fail)
    IN IF t.poisoned THEN t
       ELSE IF fail = "manifest" THEN Panic(t)
       ELSE publish_manifest(t, "manifest.m3u8", MediaPlaylistOf(t))


----------------------------------------------------------------------------
(* The new_sample callback installed by setup *)

HEADER == "HEADER"
DISCONT == "DISCONT"
DELTA_UNIT == "DELTA_UNIT"

\* BufferFlags::contains
contains(flags, wanted) == wanted \subseteq flags

\* the bytes of all buffers of the list, in order
RECURSIVE concat_buffers(_)
concat_buffers(buffer_list) ==
    IF buffer_list = <<>> THEN <<>>
    ELSE Front(buffer_list).payload \o concat_buffers(PopFront(buffer_list))

\* variants of basename_of and date_time_of, as a slip would make them
basename_unpadded(index) == Format(index) \o <<".", "m", "p", "4">>
date_time_from_anchor_only(anchor_utc, pts, anchor_pts) == anchor_utc + pts

\* format!("{:05}.mp4", state.segment_index)
basename_of(index) == Format05(index) \o <<".", "m", "p", "4">>

\* the wall clock instant of pts: now_utc - (now_gst - (pts + base_time))
pts_utc_of(now_utc, now_gst, pts_clock_time) == now_utc - (now_gst - pts_clock_time)

\* start_date_time + (pts - start_time)
date_time_of(anchor_utc, pts, anchor_pts) == anchor_utc + (pts - anchor_pts)

\* variants of the definitions below, as a slip in the code would make them
anchor_always_retaken(s) == TRUE
any_buffer_starts_segment(first) == TRUE
delta_start_accepted(first) == FALSE

\* if state.start_date_time.is_none()
anchor_needed(s) == IsNone(s.start_date_time)

\* the first buffer of the media fragment must carry HEADER
is_segment_start(first) == contains(first.flags, {HEADER})

\* the first buffer of the list carries DELTA_UNIT
starts_with_delta(first) == contains(first.flags, {DELTA_UNIT})

\* the first buffer of the list carries DISCONT and HEADER
is_media_header(first) == contains(first.flags, {DISCONT, HEADER})

\* lines 107..171: the list starts with the buffer of a media fragment
media_fragment(s, buffer_list, now_utc, now_gst, base_time, fail) ==
    LET first == Front(buffer_list)
        pts == first.pts
        s1 == IF IsNone(s.start_time) THEN [s EXCEPT !.start_time = Some(pts)] ELSE s
        pts_clock_time == pts + base_time
        s2 == IF anchor_needed(s1)
              THEN IF now_gst < pts_clock_time
                   THEN Panic(s1)
                   ELSE [s1 EXCEPT !.start_date_time =
                             Some(pts_utc_of(now_utc, now_gst, pts_clock_time))]
              ELSE s1
        duration == first.duration
        buffer_contents == concat_buffers(buffer_list)
        basename == basename_of(s2.segment_index)
        s3 == [s2 EXCEPT !.segment_index = @ + 1]
        s4 == publish_segment(s3, basename, buffer_contents)
        date_time == date_time_of(Unwrap(s4.start_date_time), pts, Unwrap(s4.start_time))
        s5 == [s4 EXCEPT !.segments =
                   Append(@, [duration |-> duration, path |-> basename,
                              date_time |-> date_time])]
    IN IF ~is_segment_start(first) THEN Panic(s)
       ELSE IF s2.poisoned THEN s2
       ELSE IF fail = "segment" THEN Panic(s3)
       ELSE IF pts < Unwrap(s4.start_time) THEN Panic(s4)
       ELSE update_manifest(s5, fail)

\* lines 59..171
new_sample(s, buffer_list, now_utc, now_gst, base_time, fail) ==
    IF buffer_list = <<>> THEN Panic(s)
    ELSE IF starts_with_delta(Front(buffer_list)) THEN Panic(s)
    ELSE IF is_media_header(Front(buffer_list))
    THEN IF fail = "header" THEN Panic(s)
         ELSE LET s1 == publish_header(s, "init.mp4", Front(buffer_list).payload)
                  rest == PopFront(buffer_list)
              IN IF rest = <<>> THEN s1
                 ELSE media_fragment(s1, rest, now_utc, now_gst, base_time, fail)
    ELSE media_fragment(s, buffer_list, now_utc, now_gst, base_time, fail)


----------------------------------------------------------------------------
(* The upstream muxer, the clocks and the storage as the callback sees them *)

\* buffer lists the appsink can hand over, by the flags of their buffers
Shapes ==
    {<<>>,
     <<{DISCONT, HEADER}>>,
     <<{DISCONT, HEADER}, {HEADER}, {DELTA_UNIT}>>,
     <<{HEADER}, {DELTA_UNIT}>>,
     <<{DELTA_UNIT}>>,
     <<{}>>,
     <<{DISCONT, HEADER}, {DELTA_UNIT}>>,
     <<{HEADER, DELTA_UNIT}, {DELTA_UNIT}>>}

\* running time of the first media fragment
FirstPts == {0, 6}
\* pts advance and duration of a fragment, in ticks: the 2 s fragments of a
\* contiguous stream, and fragments after a gap of 20 s or 21 s or a step back
Contiguous == [step |-> 4, dur |-> 4]
Frags == {Contiguous, [step |-> 40, dur |-> 5], [step |-> 42, dur |-> 4],
          [step |-> -2, dur |-> 3]}
\* readings of Utc::now()
WallClock == {1000, 990}
\* sink.base_time()
BaseTimes == {50}
\* sink.clock().time() - (pts + base_time) at the time of the callback
ClockLags == {1}
\* the storage operation that fails in this callback, if it is reached
IoFail == {"none", "header", "segment", "manifest", "remove"}

PayloadOf(flags) ==
    IF contains(flags, {DISCONT, HEADER}) THEN <<"ftyp", "moov">>
    ELSE IF contains(flags, {HEADER}) THEN <<"moof">>
    ELSE <<"mdat">>

MkBufferList(shape, pts, dur) ==
    [i \in 1..Len(shape) |->
        [flags |-> shape[i], payload |-> PayloadOf(shape[i]),
         pts |-> pts, duration |-> dur]]

HasMedia(shape) == \E i \in 1..Len(shape) : shape[i] = {HEADER}
HasInit(shape) == shape # <<>> /\ shape[1] = {DISCONT, HEADER}

\* the storage operations a list of this shape can reach
IoFailFor(shape) ==
    {fail \in IoFail :
        \/ fail = "none"
        \/ fail = "header" /\ HasInit(shape)
        \/ fail \in {"segment", "manifest", "remove"} /\ HasMedia(shape)}

NextPts(f) == IF IsNone(last_pts) THEN FirstPts ELSE {Unwrap(last_pts) + f.step}

StreamInit ==
    /\ segments = <<>>
    /\ trimmed_segments = <<>>
    /\ start_date_time = None
    /\ start_time = None
    /\ media_sequence = 0
    /\ segment_index = 0
    /\ header_file = None
    /\ segment_files = {}
    /\ manifest_file = None
    /\ removed = <<>>
    /\ evicted = <<>>
    /\ io_log = <<>>
    /\ poisoned = FALSE
    /\ n_samples = 0
    /\ last_sample = <<>>
    /\ last_pts = None
    /\ pts_monotone = TRUE
    /\ n_jumps = 0

SetStream(s) ==
    /\ segments' = s.segments
    /\ trimmed_segments' = s.trimmed_segments
    /\ start_date_time' = s.start_date_time
    /\ start_time' = s.start_time
    /\ media_sequence' = s.media_sequence
    /\ segment_index' = s.segment_index
    /\ header_file' = s.header_file
    /\ segment_files' = s.segment_files
    /\ manifest_file' = s.manifest_file
    /\ removed' = s.removed
    /\ evicted' = s.evicted
    /\ io_log' = s.io_log
    /\ poisoned' = s.poisoned

\* the appsink delivers one sample to the new_sample callback
NewSample ==
    /\ n_samples < MaxGroups
    /\ ~poisoned
    /\ \E shape \in Shapes, f \in Frags, now_utc \in WallClock,
          base_time \in BaseTimes, lag \in ClockLags :
         \E pts \in NextPts(f), fail \in IoFailFor(shape) :
           /\ pts >= 0
           /\ HasMedia(shape) \/ f = Contiguous
           /\ f # Contiguous => n_jumps < MaxJumps
           /\ n_jumps' = IF f # Contiguous THEN n_jumps + 1 ELSE n_jumps
           /\ SetStream(new_sample([Stream EXCEPT !.io_log = <<>>],
                                   MkBufferList(shape, pts, f.dur),
                                   now_utc, pts + base_time + lag, base_time, fail))
           /\ n_samples' = n_samples + 1
           /\ last_sample' = MkBufferList(shape, pts, f.dur)
           /\ last_pts' = IF HasMedia(shape) THEN Some(pts) ELSE last_pts
           /\ pts_monotone' =
                  IF HasMedia(shape) /\ IsSome(last_pts)
                  THEN pts_monotone /\ pts >= Unwrap(last_pts)
                  ELSE pts_monotone
    /\ UNCHANGED <<coordVars, mimeVars, setupVars, probeVars, durationVars>>

\* a callback arrives after an earlier one panicked: the appsink drops it
NewSampleAfterPanic ==
    /\ poisoned
    /\ UNCHANGED vars

\* the eos callback: unreachable!()
Eos ==
    /\ ~poisoned
    /\ SetStream(Panic([Stream EXCEPT !.io_log = <<>>]))
    /\ UNCHANGED <<n_samples, last_sample, last_pts, pts_monotone, n_jumps,
                   coordVars, mimeVars, setupVars, probeVars, durationVars>>

CoordIdle ==
    /\ video_streams = <<>>
    /\ audio_streams = <<>>
    /\ all_mimes = {}
    /\ wrote_manifest = FALSE
    /\ master_file = None
    /\ master_writes = 0
    /\ state_poisoned = FALSE
    /\ n_reports = 0

MimeIdle ==
    /\ codec_data = <<>>
    /\ colorimetry = None
    /\ mime_out = [outcome |-> "none", value |-> <<>>]

\* no muxer is built; the fragments of the stream are those of a 2 s setting
SetupIdle ==
    /\ fragment_duration_nanos = Contiguous.dur
    /\ mux_fragment_duration = <<>>

\* no duration is converted apart from those of the stream
DurationIdle ==
    /\ newest_duration = ClockTimeOfTicks(Contiguous.dur)
    /\ target_duration_f32 = None

\* no probe is installed
ProbeIdle ==
    /\ pc = <<>>
    /\ lock_holder = None
    /\ completer = None
    /\ writer = None

Init == StreamInit /\ CoordIdle /\ MimeIdle /\ SetupIdle /\ ProbeIdle /\ DurationIdle

Next == NewSample \/ NewSampleAfterPanic \/ Eos

Spec == Init /\ [][Next]_vars

\* the same stream fed as cmafmux feeds it: the presentation timestamps of
\* the fragments never decrease
OrderedSample == NewSample /\ pts_monotone'

MuxerNext == OrderedSample \/ NewSampleAfterPanic \/ Eos

MuxerSpec == Init /\ [][MuxerNext]_vars

\* the lists cmafmux hands over for a media fragment, with or without the
\* initialization header in front
SteadyShapes ==
    {<<{DISCONT, HEADER}, {HEADER}, {DELTA_UNIT}>>, <<{HEADER}, {DELTA_UNIT}>>}

\* the callback on a stream of contiguous 2 s fragments whose storage
\* never fails, for as long as it takes to fill the window and the queue
ContiguousSample ==
    /\ segment_index < MaxLongGroups
    /\ ~poisoned
    /\ \E shape \in SteadyShapes, now_utc \in WallClock,
          base_time \in BaseTimes, lag \in ClockLags :
         \E pts \in NextPts(Contiguous) :
           /\ SetStream(new_sample([Stream EXCEPT !.io_log = <<>>],
                                   MkBufferList(shape, pts, Contiguous.dur),
                                   now_utc, pts + base_time + lag, base_time, "none"))
           /\ n_samples' = n_samples + 1
           /\ last_sample' = MkBufferList(shape, pts, Contiguous.dur)
           /\ last_pts' = Some(pts)
    /\ UNCHANGED <<pts_monotone, n_jumps, coordVars, mimeVars, setupVars, probeVars, durationVars>>

SteadyNext == ContiguousSample

SteadySpec == Init /\ [][SteadyNext]_vars

\* fragments whose pts is strictly above that of the fragment before
IncreasingFrags == {f \in Frags : f.step > 0}

\* the callback on a stream that keeps delivering media fragments with
\* strictly increasing pts, contiguous but for one gap at most; its storage
\* may fail
IncreasingSample ==
    /\ segment_index < MaxLongGroups
    /\ ~poisoned
    /\ \E shape \in SteadyShapes, f \in IncreasingFrags, now_utc \in WallClock,
          base_time \in BaseTimes, lag \in ClockLags :
         \E pts \in NextPts(f), fail \in IoFailFor(shape) :
           /\ f # Contiguous => n_jumps = 0
           /\ n_jumps' = IF f # Contiguous THEN n_jumps + 1 ELSE n_jumps
           /\ SetStream(new_sample([Stream EXCEPT !.io_log = <<>>],
                                   MkBufferList(shape, pts, f.dur),
                                   now_utc, pts + base_time + lag, base_time, fail))
           /\ n_samples' = n_samples + 1
           /\ last_sample' = MkBufferList(shape, pts, f.dur)
           /\ last_pts' = Some(pts)
    /\ UNCHANGED <<pts_monotone, coordVars, mimeVars, setupVars, probeVars, durationVars>>

LiveNext == IncreasingSample \/ NewSampleAfterPanic

\* the muxer keeps producing fragments, and the streaming thread delivers
\* each of them to the callback
LiveSpec == Init /\ [][LiveNext]_vars /\ WF_vars(IncreasingSample)


----------------------------------------------------------------------------
(* The master playlist coordinator: State in main.rs, fed by probe_encoder *)

Coord ==
    [video_streams |-> video_streams, audio_streams |-> audio_streams,
     all_mimes |-> all_mimes, wrote_manifest |-> wrote_manifest,
     master_file |-> master_file, master_writes |-> master_writes,
     state_poisoned |-> state_poisoned]

\* a variant of map_insert: an entry is added whether or not the key is there
map_insert_appends(m, k, v) == m \cup {<<k, v>>}

\* HashMap::insert: the value of an existing key is replaced
map_insert(m, k, v) == {e \in m : e[1] # k} \cup {<<k, v>>}
\* HashMap::len: the number of entries
map_len(m) == Cardinality(m)
\* HashMap::get
map_get(m, k) == IF \E e \in m : e[1] = k
                 THEN Some((CHOOSE e \in m : e[1] = k)[2]) ELSE None

\* video_streams.len() + audio_streams.len()
expected_count(c) == Len(c.video_streams) + Len(c.audio_streams)

\* PathBuf: push(name), push("manifest.m3u8")
manifest_uri(name) == <<name, "/", "manifest.m3u8">>

\* a variant of VariantStreamOf: the codec is looked up under the name of the
\* first video rendition
VariantStreamOf_first_codec(c, stream) ==
    [uri |-> manifest_uri(stream.name),
     bandwidth |-> stream.bitrate,
     codecs |-> map_get(c.all_mimes, c.video_streams[1].name),
     resolution |-> Some(<<stream.width, stream.height>>),
     audio |-> Some("audio")]

VariantStreamOf(c, stream) ==
    [uri |-> manifest_uri(stream.name),
     bandwidth |-> stream.bitrate,
     codecs |-> map_get(c.all_mimes, stream.name),
     resolution |-> Some(<<stream.width, stream.height>>),
     audio |-> Some("audio")]

AlternativeMediaOf(stream) ==
    [media_type |-> "Audio",
     uri |-> Some(manifest_uri(stream.name)),
     group_id |-> "audio",
     language |-> Some(stream.lang),
     name |-> stream.name,
     default |-> stream.default,
     autoselect |-> stream.default,
     channels |-> Some("2")]

MasterPlaylistOf(c) ==
    [version |-> Some(PlaylistVersion),
     variants |-> [i \in 1..Len(c.video_streams) |->
                       VariantStreamOf(c, c.video_streams[i])],
     alternatives |-> [i \in 1..Len(c.audio_streams) |->
                           AlternativeMediaOf(c.audio_streams[i])],
     independent_segments |-> TRUE,
     complete |-> TRUE]

\* File::create succeeded and write_to failed: the file is there, truncated
TruncatedFile ==
    [version |-> None, variants |-> <<>>, alternatives |-> <<>>,
     independent_segments |-> FALSE, complete |-> FALSE]

\* a variant of write_manifest: the flag is set before the file is written
write_manifest_flag_first(c, fail) ==
    LET c1 == [c EXCEPT !.master_writes = @ + 1, !.wrote_manifest = TRUE]
    IN IF fail = "create" THEN [c1 EXCEPT !.state_poisoned = TRUE]
       ELSE IF fail = "write"
       THEN [c1 EXCEPT !.master_file = Some(TruncatedFile), !.state_poisoned = TRUE]
       ELSE [c1 EXCEPT !.master_file = Some(MasterPlaylistOf(c))]

\* fail: "create" (File::create fails), "write" (write_to fails) or "none"
write_manifest(c, fail) ==
    LET c1 == [c EXCEPT !.master_writes = @ + 1]
    IN IF fail = "create" THEN [c1 EXCEPT !.state_poisoned = TRUE]
       ELSE IF fail = "write"
       THEN [c1 EXCEPT !.master_file = Some(TruncatedFile), !.state_poisoned = TRUE]
       ELSE [c1 EXCEPT !.master_file = Some(MasterPlaylistOf(c)),
                       !.wrote_manifest = TRUE]

\* variants of barrier_closed, as a slip in the code would make it
barrier_ignores_wrote(c) == map_len(c.all_mimes) < expected_count(c)
barrier_one_early(c) ==
    c.wrote_manifest \/ map_len(c.all_mimes) + 1 < expected_count(c)

\* the early return of try_write_manifest
barrier_closed(c) == c.wrote_manifest \/ map_len(c.all_mimes) < expected_count(c)

try_write_manifest(c, fail) ==
    IF barrier_closed(c) THEN c ELSE write_manifest(c, fail)

\* the Caps arm of the probe: lock, insert, try_write_manifest
report_codec(c, name, mime, fail) ==
    try_write_manifest([c EXCEPT !.all_mimes = map_insert(@, name, mime)], fail)

\* the ladder of main(), cut to MaxH265 and MaxH264 renditions per codec
Av1Streams ==
    <<[name |-> "av1_0", bitrate |-> 1024000, width |-> 256, height |-> 144]>>
H265Streams ==
    SubSeq(<<[name |-> "h265_1", bitrate |-> 8000000, width |-> 3840, height |-> 2160],
             [name |-> "h265_2", bitrate |-> 4000000, width |-> 3840, height |-> 2160],
             [name |-> "h265_3", bitrate |-> 2000000, width |-> 2560, height |-> 1440],
             [name |-> "h265_4", bitrate |-> 3000000, width |-> 1920, height |-> 1080]>>,
           1, MaxH265)
H264Streams ==
    SubSeq(<<[name |-> "h264_1", bitrate |-> 6000000, width |-> 1920, height |-> 1080],
             [name |-> "h264_2", bitrate |-> 3000000, width |-> 1920, height |-> 1080],
             [name |-> "h264_3", bitrate |-> 3000000, width |-> 1280, height |-> 720]>>,
           1, MaxH264)
AudioStreams == <<[name |-> "audio_0", lang |-> "en", default |-> TRUE]>>

\* codec strings a probe can report
Mimes == {"avc1.64001f", "mp4a.40.2"}
MasterFail == {"none", "create", "write"}

StreamNames(c) ==
    {c.video_streams[i].name : i \in 1..Len(c.video_streams)}
        \cup {c.audio_streams[i].name : i \in 1..Len(c.audio_streams)}

CoordInit ==
    /\ \E disable_av1 \in BOOLEAN, disable_h265 \in BOOLEAN, disable_h264 \in BOOLEAN :
         video_streams = (IF disable_av1 THEN <<>> ELSE Av1Streams)
                           \o (IF disable_h265 THEN <<>> ELSE H265Streams)
                           \o (IF disable_h264 THEN <<>> ELSE H264Streams)
    /\ audio_streams = AudioStreams
    /\ all_mimes = {}
    /\ wrote_manifest = FALSE
    /\ master_file = None
    /\ master_writes = 0
    /\ state_poisoned = FALSE
    /\ n_reports = 0

SetCoord(c) ==
    /\ all_mimes' = c.all_mimes
    /\ wrote_manifest' = c.wrote_manifest
    /\ master_file' = c.master_file
    /\ master_writes' = c.master_writes
    /\ state_poisoned' = c.state_poisoned
    /\ UNCHANGED <<video_streams, audio_streams>>

\* the probe of one rendition sees a Caps event.  The probe removes itself
\* after its first report; a name is still allowed to report again here
Report ==
    /\ n_reports < MaxReports
    /\ ~state_poisoned
    /\ \E name \in StreamNames(Coord), mime \in Mimes, fail \in MasterFail :
         SetCoord(report_codec(Coord, name, mime, fail))
    /\ n_reports' = n_reports + 1
    /\ UNCHANGED <<streamVars, mimeVars, setupVars, probeVars, durationVars>>

\* state.lock().unwrap() on the poisoned mutex: the probe panics at once
ReportAfterPanic ==
    /\ state_poisoned
    /\ UNCHANGED vars

StreamIdle == StreamInit

CoordInitAll == StreamIdle /\ CoordInit /\ MimeIdle /\ SetupIdle /\ ProbeIdle /\ DurationIdle

CoordNext == Report \/ ReportAfterPanic

CoordSpec == CoordInitAll /\ [][CoordNext]_vars


----------------------------------------------------------------------------
(* Building the renditions: the setup loops of main(), VideoStream::setup and
   AudioStream::setup *)

\* fragment durations the setups can be called with, in ticks: 2 s, 2.5 s,
\* 4 s, 5 s and 6 s.  The parameter is a u64 of nanoseconds
FragmentDurations == {4, 5, 8, 10, 12}

\* cmafmux built with .property("fragment-duration", fragment_duration_nanos)
cmafmux_of(name, duration) == [name |-> name, fragment_duration |-> duration]

SetupInit ==
    /\ fragment_duration_nanos \in FragmentDurations
    /\ mux_fragment_duration = <<>>

\* for stream in &state_lock.video_streams { stream.setup(..) }
VideoSetup ==
    /\ Len(mux_fragment_duration) < Len(video_streams)
    /\ mux_fragment_duration' =
           Append(mux_fragment_duration,
                  cmafmux_of(video_streams[Len(mux_fragment_duration) + 1].name,
                             fragment_duration_nanos))
    /\ UNCHANGED <<fragment_duration_nanos, streamVars, coordVars, mimeVars, probeVars, durationVars>>

\* for stream in &state_lock.audio_streams { stream.setup(..) }
AudioSetup ==
    /\ Len(mux_fragment_duration) >= Len(video_streams)
    /\ Len(mux_fragment_duration) < Len(video_streams) + Len(audio_streams)
    /\ mux_fragment_duration' =
           Append(mux_fragment_duration,
                  cmafmux_of(audio_streams[Len(mux_fragment_duration)
                                             - Len(video_streams) + 1].name,
                             fragment_duration_nanos))
    /\ UNCHANGED <<fragment_duration_nanos, streamVars, coordVars, mimeVars, probeVars, durationVars>>

SetupInitAll == StreamIdle /\ CoordInit /\ MimeIdle /\ SetupInit /\ ProbeIdle /\ DurationIdle

SetupNext == VideoSetup \/ AudioSetup

SetupSpec == SetupInitAll /\ [][SetupNext]_vars


----------------------------------------------------------------------------
(* The probes of the renditions racing for the State mutex: the Caps arm of
   probe_encoder, statement by statement.  Each probe runs on the streaming
   thread of its encoder and returns PadProbeReturn::Remove after its report *)

\* a variant of mutex_free: a lock that excludes nobody
mutex_always_free(holder) == TRUE

\* Mutex::lock returns once no other thread holds the mutex
mutex_free(holder) == IsNone(holder)

ProbeInit ==
    /\ pc = [name \in StreamNames(Coord) |-> "caps"]
    /\ lock_holder = None
    /\ completer = None
    /\ writer = None

\* a panic while the guard is held: the mutex is poisoned and released
ProbePanics(name) ==
    /\ state_poisoned' = TRUE
    /\ lock_holder' = None
    /\ pc' = [pc EXCEPT ![name] = "panicked"]

\* let mut state = state.lock().unwrap();
ProbeLock ==
    \E name \in DOMAIN pc :
        /\ pc[name] = "caps"
        /\ mutex_free(lock_holder)
        /\ IF state_poisoned
           THEN /\ pc' = [pc EXCEPT ![name] = "panicked"]
                /\ UNCHANGED lock_holder
           ELSE /\ pc' = [pc EXCEPT ![name] = "insert"]
                /\ lock_holder' = Some(name)
        /\ UNCHANGED <<completer, writer, streamVars, coordVars, mimeVars, setupVars, durationVars>>

\* state.all_mimes.insert(name.to_string(), mime.into());
ProbeInsert ==
    \E name \in DOMAIN pc, mime \in Mimes :
        /\ pc[name] = "insert"
        /\ all_mimes' = map_insert(all_mimes, name, mime)
        /\ n_reports' = n_reports + 1
        /\ completer' =
               IF map_len(all_mimes) < expected_count(Coord)
                    /\ map_len(all_mimes') = expected_count(Coord)
               THEN Some(name) ELSE completer
        /\ pc' = [pc EXCEPT ![name] = "check"]
        /\ UNCHANGED <<lock_holder, writer, video_streams, audio_streams,
                       wrote_manifest, master_file, master_writes, state_poisoned,
                       streamVars, mimeVars, setupVars, durationVars>>

\* try_write_manifest: the early return, or on to write_manifest
ProbeCheck ==
    \E name \in DOMAIN pc :
        /\ pc[name] = "check"
        /\ pc' = [pc EXCEPT ![name] =
                     IF barrier_closed(Coord) THEN "unlock" ELSE "create"]
        /\ UNCHANGED <<lock_holder, completer, writer, streamVars, coordVars,
                       mimeVars, setupVars, durationVars>>

\* write_manifest: the playlist is built, File::create(&self.path).unwrap()
ProbeCreate ==
    \E name \in DOMAIN pc, fail \in {"none", "create"} :
        /\ pc[name] = "create"
        /\ master_writes' = master_writes + 1
        /\ writer' = Some(name)
        /\ IF fail = "create"
           THEN ProbePanics(name) /\ UNCHANGED master_file
           ELSE /\ master_file' = Some(TruncatedFile)
                /\ pc' = [pc EXCEPT ![name] = "write"]
                /\ UNCHANGED <<state_poisoned, lock_holder>>
        /\ UNCHANGED <<completer, video_streams, audio_streams, all_mimes,
                       wrote_manifest, n_reports, streamVars, mimeVars, setupVars, durationVars>>

\* playlist.write_to(&mut file).expect(..)
ProbeWrite ==
    \E name \in DOMAIN pc, fail \in {"none", "write"} :
        /\ pc[name] = "write"
        /\ IF fail = "write"
           THEN ProbePanics(name) /\ UNCHANGED master_file
           ELSE /\ master_file' = Some(MasterPlaylistOf(Coord))
                /\ pc' = [pc EXCEPT ![name] = "flag"]
                /\ UNCHANGED <<state_poisoned, lock_holder>>
        /\ UNCHANGED <<completer, writer, video_streams, audio_streams, all_mimes,
                       wrote_manifest, master_writes, n_reports,
                       streamVars, mimeVars, setupVars, durationVars>>

\* self.wrote_manifest = true;
ProbeFlag ==
    \E name \in DOMAIN pc :
        /\ pc[name] = "flag"
        /\ wrote_manifest' = TRUE
        /\ pc' = [pc EXCEPT ![name] = "unlock"]
        /\ UNCHANGED <<lock_holder, completer, writer, video_streams, audio_streams,
                       all_mimes, master_file, master_writes, state_poisoned,
                       n_reports, streamVars, mimeVars, setupVars, durationVars>>

\* the guard is dropped at the end of the arm; the probe is removed
ProbeUnlock ==
    \E name \in DOMAIN pc :
        /\ pc[name] = "unlock"
        /\ lock_holder' = None
        /\ pc' = [pc EXCEPT ![name] = "done"]
        /\ UNCHANGED <<completer, writer, streamVars, coordVars, mimeVars, setupVars, durationVars>>

ProbeInitAll == StreamIdle /\ CoordInit /\ MimeIdle /\ SetupIdle /\ ProbeInit /\ DurationIdle

ProbeNext ==
    \/ ProbeLock
    \/ ProbeInsert
    \/ ProbeCheck
    \/ ProbeCreate
    \/ ProbeWrite
    \/ ProbeFlag
    \/ ProbeUnlock

ProbeSpec == ProbeInitAll /\ [][ProbeNext]_vars


----------------------------------------------------------------------------
(* compute_av1_mime: the codecs parameter of an AV1CodecConfigurationRecord *)

\* u8 shifts and masks
Shr(b, n) == b \div (2 ^ n)
Mask(b, m) == b % (m + 1)

\* str::replace: every non-overlapping match of pat, left to right
RECURSIVE str_replace(_, _, _)
str_replace(s, pat, to) ==
    IF Len(s) < Len(pat) THEN s
    ELSE IF SubSeq(s, 1, Len(pat)) = pat
    THEN to \o str_replace(SubSeq(s, Len(pat) + 1, Len(s)), pat, to)
    ELSE <<s[1]>> \o str_replace(Tail(s), pat, to)

\* VideoColorPrimaries::to_iso, VideoTransferFunction::to_iso, VideoColorMatrix::to_iso
primaries_to_iso(p) ==
    CASE p = "Bt709" -> 1 [] p = "Bt2020" -> 9 [] p = "Smpte170m" -> 6 [] OTHER -> 2
transfer_to_iso(f) ==
    CASE f = "Bt709" -> 1 [] f = "Smpte2084" -> 16 [] f = "Srgb" -> 13 [] OTHER -> 2
matrix_to_iso(m) ==
    CASE m = "Bt709" -> 1 [] m = "Bt2020" -> 9 [] m = "Rgb" -> 0 [] OTHER -> 2

\* a variant of seq_level_idx_0_of, as a slip in the mask would make it
seq_level_idx_0_low_nibble(data) == Mask(data[2], 15)
\* seq_profile taken from the marker byte in front
seq_profile_from_byte0(data) == Mask(Shr(data[1], 5), 7)
\* 12 bits whenever both bit depth flags are set, whatever the profile
bit_depth_twelve_any_profile(seq_profile, high_bitdepth, twelve_bit) ==
    IF high_bitdepth = 1 /\ twelve_bit = 1 THEN 12
    ELSE IF high_bitdepth = 1 THEN 10
    ELSE 8
\* chroma_sample_position read whatever the subsampling bits are
chroma_sample_position_unconditional(data) == Mask(data[3], 3)

seq_profile_of(data) == Mask(Shr(data[2], 5), 7)
seq_level_idx_0_of(data) == Mask(data[2], 31)
tier_of(data) == IF Shr(data[3], 7) = 0 THEN "M" ELSE "H"
high_bitdepth_of(data) == Mask(Shr(data[3], 6), 1)
twelve_bit_of(data) == Mask(Shr(data[3], 5), 1)
bit_depth_of(seq_profile, high_bitdepth, twelve_bit) ==
    IF seq_profile = 2 /\ high_bitdepth = 1 /\ twelve_bit = 1 THEN 12
    ELSE IF seq_profile = 2 /\ high_bitdepth = 1 THEN 10
    ELSE IF high_bitdepth = 1 THEN 10
    ELSE 8
monochrome_of(data) == Mask(Shr(data[3], 4), 1)
chroma_subsampling_x_of(data) == Mask(Shr(data[3], 3), 1)
chroma_subsampling_y_of(data) == Mask(Shr(data[3], 2), 1)
chroma_sample_position_of(data) ==
    IF chroma_subsampling_x_of(data) = 1 /\ chroma_subsampling_y_of(data) = 1
    THEN Mask(data[3], 3) ELSE 0

full_range_of(info) == IF info.range = "Range0_255" THEN 1 ELSE 0

Dot == <<".">>

\* "av01.{}.{:02}{}.{:02}"
base_mime(data) ==
    <<"a", "v", "0", "1">> \o Dot \o Format(seq_profile_of(data))
        \o Dot \o Format02(seq_level_idx_0_of(data)) \o <<tier_of(data)>>
        \o Dot \o Format02(bit_depth_of(seq_profile_of(data), high_bitdepth_of(data),
                                        twelve_bit_of(data)))

\* ".{}.{}{}{}.{:02}.{:02}.{:02}.{}"
color_suffix(data, info) ==
    Dot \o Format(monochrome_of(data))
        \o Dot \o Format(chroma_subsampling_x_of(data))
        \o Format(chroma_subsampling_y_of(data))
        \o Format(chroma_sample_position_of(data))
        \o Dot \o Format02(primaries_to_iso(info.primaries))
        \o Dot \o Format02(transfer_to_iso(info.transfer))
        \o Dot \o Format02(matrix_to_iso(info.matrix))
        \o Dot \o Format(full_range_of(info))

\* ".0.110.01.01.01.0"
DefaultSuffix ==
    <<".", "0", ".", "1", "1", "0", ".", "0", "1", ".", "0", "1", ".", "0", "1",
      ".", "0">>

\* the formatted string returned as it is, without the replace
av1_mime_string_unreplaced(data, color) ==
    IF IsSome(color) THEN base_mime(data) \o color_suffix(data, Unwrap(color))
    ELSE base_mime(data)

\* the value returned for a record of at least 3 bytes
av1_mime_string(data, color) ==
    str_replace(IF IsSome(color) THEN base_mime(data) \o color_suffix(data, Unwrap(color))
                ELSE base_mime(data),
                DefaultSuffix, <<>>)

\* assert!(codec_data.len() >= 3)
compute_av1_mime(data, color) ==
    IF Len(data) >= 3
    THEN [outcome |-> "returned", value |-> av1_mime_string(data, color)]
    ELSE [outcome |-> "panicked", value |-> <<>>]

\* marker and version of the record
Byte0s == {129}
\* seq_profile 0..7 with a choice of levels
Byte1s == {p * 32 + l : p \in 0..7, l \in {0, 4, 9, 10, 31}}
\* every tier, bit depth, monochrome and chroma combination
Byte2s == 0..255
\* the byte after: reserved bits and the presentation delay
Byte3s == {0}

CodecDatas ==
    {<<>>} \cup {<<a>> : a \in Byte0s} \cup {<<a, b>> : a \in Byte0s, b \in {0, 255}}
        \cup {<<a, b, c>> : a \in Byte0s, b \in Byte1s, c \in Byte2s}
        \cup {<<a, b, c, d>> : a \in Byte0s, b \in {0, 4}, c \in {12, 110}, d \in Byte3s}

Colorimetries ==
    {None,
     Some([range |-> "Range16_235", matrix |-> "Bt709", transfer |-> "Bt709",
           primaries |-> "Bt709"]),
     Some([range |-> "Range16_235", matrix |-> "Bt2020", transfer |-> "Smpte2084",
           primaries |-> "Bt2020"]),
     Some([range |-> "Range0_255", matrix |-> "Bt709", transfer |-> "Bt709",
           primaries |-> "Bt709"]),
     Some([range |-> "Range16_235", matrix |-> "Rgb", transfer |-> "Srgb",
           primaries |-> "Smpte170m"])}

MimeNotCalled == [outcome |-> "none", value |-> <<>>]

MimeInit ==
    /\ codec_data \in CodecDatas
    /\ colorimetry \in Colorimetries
    /\ mime_out = MimeNotCalled

\* probe_encoder calls compute_av1_mime on the codec_data of the caps
ComputeMime ==
    /\ mime_out = MimeNotCalled
    /\ mime_out' = compute_av1_mime(codec_data, colorimetry)
    /\ UNCHANGED <<codec_data, colorimetry, streamVars, coordVars, setupVars, probeVars, durationVars>>

MimeInitAll == StreamIdle /\ CoordIdle /\ MimeInit /\ SetupIdle /\ ProbeIdle /\ DurationIdle

MimeNext == ComputeMime

MimeSpec == MimeInitAll /\ [][MimeNext]_vars

----------------------------------------------------------------------------
(* The target duration at the resolution of ClockTime *)

\* the target duration line of update_manifest on durations that are not
\* whole ticks: nanoseconds around the whole second, around the steps of f32
\* and in between
NanosSamples ==
    {0, 1, 32, 33, 64, 65, 128, 129, 256, 257, 1000, 73741824, 147483648,
     294967296, 500000000, 999999744, 999999999}

ClockTimes == {ClockTime(s, ns) : s \in 0..MaxSeconds, ns \in NanosSamples}

DurationInit ==
    /\ newest_duration \in ClockTimes
    /\ target_duration_f32 = None

\* target_duration: state.segments.back().map_or(0f32, |v| ...ceil())
TargetDuration ==
    /\ IsNone(target_duration_f32)
    /\ target_duration_f32' = Some(seconds_f32_ceil(newest_duration))
    /\ UNCHANGED <<newest_duration, streamVars, coordVars, mimeVars, setupVars,
                   probeVars>>

DurationInitAll ==
    StreamIdle /\ CoordIdle /\ MimeIdle /\ SetupIdle /\ ProbeIdle /\ DurationInit

DurationNext == TargetDuration

DurationSpec == DurationInitAll /\ [][DurationNext]_vars


----------------------------------------------------------------------------
(* Properties of the segment window (Spec) *)

\* the latest callback published a media playlist
PublishedPlaylist(log) == \E i \in 1..Len(log) : log[i][1] = "manifest"

\* C1: after every fragment group the active window holds at most 5 segments,
\* and the media playlist on storage lists at most 5 segments.
C1_WindowBounded ==
    /\ Len(segments) <= 5
    /\ IsSome(manifest_file) => Len(Unwrap(manifest_file).segments) <= 5

\* C1 witness: segments were evicted and a full window of 5 was published.
C1_Witness ==
    /\ media_sequence > 0
    /\ Len(segments) = 5
    /\ PublishedPlaylist(io_log)
    /\ Len(Unwrap(manifest_file).segments) = 5

\* C2: media_sequence is the number of segments popped from the front of the
\* window so far, and each playlist is published with that value.
C2_MediaSequenceCountsEvictions ==
    /\ media_sequence = Len(evicted)
    /\ PublishedPlaylist(io_log) =>
           Unwrap(manifest_file).media_sequence = Len(evicted)

\* C2 witness: two evictions, published in the playlist.
C2_Witness ==
    /\ Len(evicted) = 2
    /\ PublishedPlaylist(io_log)
    /\ Unwrap(manifest_file).media_sequence = 2

\* C3: a file removed during a callback belongs to an entry whose removal_time
\* is strictly earlier than the date_time of the oldest segment of the window;
\* a queued entry whose removal_time is not earlier stays queued, its file present.
C3_NeverDeletedEarly ==
    [][segments' # <<>> =>
         /\ \A i \in (Len(removed) + 1)..Len(removed') :
                removed'[i].removal_time < segments'[1].date_time
         /\ \A i \in 1..Len(trimmed_segments) :
                trimmed_segments[i].removal_time >= segments'[1].date_time =>
                    /\ \E j \in 1..Len(trimmed_segments') :
                           trimmed_segments'[j] = trimmed_segments[i]
                    /\ \E f \in segment_files' : f[1] = trimmed_segments[i].path
         /\ \A j \in 1..Len(trimmed_segments') :
                \E f \in segment_files' : f[1] = trimmed_segments'[j].path]_vars

\* C3 witness: one file was removed while the entry behind it, whose
\* removal_time equals the start of the oldest segment, was kept.
C3_Witness ==
    /\ removed # <<>>
    /\ trimmed_segments # <<>>
    /\ segments # <<>>
    /\ trimmed_segments[1].removal_time = segments[1].date_time
    /\ \E f \in segment_files : f[1] = trimmed_segments[1].path

\* the pending-deletion queue holds no entry that is due, and the file of
\* every evicted segment that is no longer queued is gone
NothingDueIsLeft ==
        /\ \A i \in 1..Len(trimmed_segments) :
               ~(trimmed_segments[i].removal_time < segments[1].date_time)
        /\ \A i \in 1..Len(evicted) :
               (\E j \in 1..Len(trimmed_segments) : trimmed_segments[j].path = evicted[i])
                   \/ ~(\E f \in segment_files : f[1] = evicted[i])

\* C4: after each manifest update that completes, no entry of the
\* pending-deletion queue has a removal_time earlier than the date_time of the
\* oldest segment of the window; every such entry is dropped and its file
\* removed.  Stated of MuxerSpec: the scan stops at the first entry that is
\* not due, and the queue is in removal_time order while the pts never decrease.
C4_DeletedOnceDue == PublishedPlaylist(io_log) => NothingDueIsLeft

\* C4 witness: a manifest update removed the file of a due entry.
C4_Witness ==
    /\ PublishedPlaylist(io_log)
    /\ \E i \in 1..Len(io_log) : io_log[i][1] = "remove"
    /\ trimmed_segments # <<>>


\* C7: for fragments whose pts never decrease, the date_time of the segments
\* is non-decreasing in the order of their creation, whatever Utc::now()
\* returns once the anchor is taken.  Each new segment is appended behind the
\* segment created before it, which is still in the window, so this is the
\* window being sorted by date_time.
C7_DateTimeMonotone ==
    pts_monotone =>
        \A i \in 1..(Len(segments) - 1) :
            segments[i].date_time <= segments[i + 1].date_time

\* C7 witness: fragments with increasing pts left a window of several segments
\* with increasing date_time.
C7_Witness ==
    /\ pts_monotone
    /\ Len(segments) >= 3
    /\ segments[1].date_time < segments[Len(segments)].date_time
    /\ Unwrap(last_pts) > Unwrap(start_time)

\* 7 media groups were delivered and nothing else: contiguous 2 s fragments
\* with pts 0, 2, ..., 12 s
SevenSegmentsPushed ==
    /\ n_samples = 7
    /\ segment_index = 7
    /\ n_jumps = 0
    /\ start_time = Some(0)
    /\ last_pts = Some(12 * TicksPerSecond)
    /\ PublishedPlaylist(io_log)

\* C8: after 7 segments of 2 s are pushed into a fresh publisher,
\* media_sequence is 2, the window holds the segments 2..6 in order, and the
\* pending-deletion queue holds the entries of the segments 0 and 1, whose
\* removal times are their date_time plus 20 s; no file has been removed.
C8_WindowingScenario ==
    SevenSegmentsPushed =>
        /\ media_sequence = 2
        /\ Len(segments) = 5
        /\ \A i \in 1..5 :
               /\ segments[i].path = <<"0", "0", "0", "0", DigitChar[i + 2]>>
                                         \o <<".", "m", "p", "4">>
               /\ segments[i].date_time =
                      Unwrap(start_date_time) + (i + 1) * 2 * TicksPerSecond
               /\ segments[i].duration = 2 * TicksPerSecond
        /\ trimmed_segments =
               <<[removal_time |-> Unwrap(start_date_time) + 20 * TicksPerSecond,
                  path |-> <<"0", "0", "0", "0", "0", ".", "m", "p", "4">>],
                 [removal_time |->
                      Unwrap(start_date_time) + 2 * TicksPerSecond + 20 * TicksPerSecond,
                  path |-> <<"0", "0", "0", "0", "1", ".", "m", "p", "4">>]>>
        /\ removed = <<>>
        /\ \A i \in 0..6 :
               \E f \in segment_files :
                   f[1] = <<"0", "0", "0", "0", DigitChar[i + 1], ".", "m", "p", "4">>

\* C8 witness: the scenario has run.
C8_Witness == SevenSegmentsPushed /\ ~poisoned /\ Len(trimmed_segments) = 2

\* the list, once a leading DISCONT+HEADER buffer is taken off, starts with a
\* buffer without the HEADER flag
LacksSegmentHeader(buffer_list) ==
    LET rest == IF buffer_list # <<>> /\ {DISCONT, HEADER} \subseteq buffer_list[1].flags
                THEN Tail(buffer_list) ELSE buffer_list
    IN rest # <<>> /\ HEADER \notin rest[1].flags

\* C9: a fragment group that, after its leading init buffer if any, starts
\* with a buffer without HEADER makes the callback panic; no segment file is
\* written for it, segment_index is not advanced, no Segment is appended and
\* no playlist is published.
C9_MissingHeaderIsFatal ==
    [][(n_samples' = n_samples + 1 /\ LacksSegmentHeader(last_sample')) =>
           /\ poisoned'
           /\ segment_index' = segment_index
           /\ segments' = segments
           /\ segment_files' = segment_files
           /\ manifest_file' = manifest_file
           /\ \A i \in 1..Len(io_log') : io_log'[i][1] \notin {"segment", "manifest"}]_vars

\* C9 witness: such a group arrived in a running stream, behind an init
\* buffer that was published, and the callback panicked.
C9_Witness ==
    /\ LacksSegmentHeader(last_sample)
    /\ poisoned
    /\ segment_index > 0
    /\ io_log = <<<<"header", "init.mp4">>>>


----------------------------------------------------------------------------
(* Properties of the master playlist coordinator (CoordSpec) *)

\* the names reported so far
ReportedNames == {e[1] : e \in all_mimes}
ExpectedCount == Len(video_streams) + Len(audio_streams)

\* C5: write_manifest runs at most once, whatever the reports are; once
\* wrote_manifest is true it stays true, a further report is still inserted
\* into all_mimes, and the master manifest is not written again.
C5_MasterWrittenAtMostOnce ==
    [][/\ master_writes' <= 1
       /\ wrote_manifest =>
              /\ wrote_manifest'
              /\ master_writes' = master_writes
              /\ master_file' = master_file
              /\ n_reports' = n_reports + 1 =>
                     \E name \in ReportedNames', mime \in Mimes :
                         /\ <<name, mime>> \in all_mimes'
                         /\ \A e \in all_mimes : e[1] # name => e \in all_mimes']_vars

\* C5 witness: the manifest was written once, a name reported twice, and a
\* report made after the write changed a codec that the manifest still shows
\* as it was.
C5_Witness ==
    /\ wrote_manifest
    /\ master_writes = 1
    /\ n_reports > Cardinality(ReportedNames) + 1
    /\ \E i \in 1..Len(video_streams) :
           Unwrap(master_file).variants[i].codecs
               # Some((CHOOSE e \in all_mimes : e[1] = video_streams[i].name)[2])

\* C6: write_manifest runs only in a report after whose insertion all_mimes
\* holds as many names as there are renditions, and it runs in the report
\* whose insertion makes that so for the first time: unless creating or
\* writing the file fails, that report leaves the master manifest written.
C6_BarrierOpensAtLastReport ==
    [][/\ master_writes' > master_writes =>
              Cardinality(ReportedNames') = ExpectedCount
       /\ IsSome(master_file') => Cardinality(ReportedNames') = ExpectedCount
       /\ (Cardinality(ReportedNames) < ExpectedCount
             /\ Cardinality(ReportedNames') = ExpectedCount) =>
              /\ master_writes' = master_writes + 1
              /\ state_poisoned' \/
                     (wrote_manifest' /\ IsSome(master_file')
                        /\ Unwrap(master_file').complete)]_vars

\* C6 witness: several renditions, one of them reported twice before the last
\* one reported, and the manifest written.
C6_Witness ==
    /\ ExpectedCount >= 3
    /\ wrote_manifest
    /\ IsSome(master_file)
    /\ Unwrap(master_file).complete
    /\ n_reports > ExpectedCount
    /\ \A i \in 1..Len(video_streams) :
           Unwrap(master_file).variants[i].codecs
               = Some((CHOOSE e \in all_mimes : e[1] = video_streams[i].name)[2])


----------------------------------------------------------------------------
(* Properties of compute_av1_mime (MimeSpec) *)

\* C10: for a record of at least 3 bytes and no colorimetry the function
\* returns the 13 characters av01.P.LLT.DD: P the digit of bits 7..5 of byte 1,
\* LL bits 4..0 of byte 1 in two digits, T "M" or "H" as bit 7 of byte 2 is 0
\* or 1, DD the bit depth in two digits; 0x81 0x00 0x0C gives av01.0.00M.08.
C10_BaseMimeString ==
    (mime_out.outcome # "none" /\ Len(codec_data) >= 3 /\ colorimetry = None) =>
        LET v == mime_out.value
            profile == codec_data[2] \div 32
            level == codec_data[2] % 32
        IN /\ mime_out.outcome = "returned"
           /\ Len(v) = 13
           /\ SubSeq(v, 1, 5) = <<"a", "v", "0", "1", ".">>
           /\ v[6] = DigitChar[profile + 1]
           /\ v[7] = "."
           /\ v[8] = DigitChar[(level \div 10) + 1]
           /\ v[9] = DigitChar[(level % 10) + 1]
           /\ v[10] = (IF codec_data[3] < 128 THEN "M" ELSE "H")
           /\ v[11] = "."
           /\ SubSeq(v, 12, 13) \in {<<"0", "8">>, <<"1", "0">>, <<"1", "2">>}
           /\ codec_data = <<129, 0, 12>> =>
                  v = <<"a", "v", "0", "1", ".", "0", ".", "0", "0", "M", ".", "0", "8">>

\* C10 witness: the record of the test, without colorimetry, gave av01.0.00M.08.
C10_Witness ==
    /\ codec_data = <<129, 0, 12>>
    /\ colorimetry = None
    /\ mime_out.outcome = "returned"
    /\ mime_out.value = <<"a", "v", "0", "1", ".", "0", ".", "0", "0", "M", ".", "0", "8">>

\* the call returned for a record of at least 3 bytes with a colorimetry
ReturnedWithColor ==
    /\ mime_out.outcome = "returned"
    /\ Len(codec_data) >= 3
    /\ IsSome(colorimetry)

\* the record and the colorimetry expand to the suffix .0.110.01.01.01.0:
\* not monochrome, subsampling 1/1 with position 0, BT.709 throughout, limited range
ExpandsToDefaultSuffix ==
    /\ codec_data[3] % 32 = 12
    /\ Unwrap(colorimetry) =
           [range |-> "Range16_235", matrix |-> "Bt709", transfer |-> "Bt709",
            primaries |-> "Bt709"]

\* C11: with a colorimetry whose expanded suffix is .0.110.01.01.01.0 the
\* function returns the base string alone, the same string it returns for the
\* same record without colorimetry; with any other suffix nothing is removed:
\* the result is the 13 characters of the base string and 17 of the suffix.
C11_DefaultSuffixDropped ==
    ReturnedWithColor =>
        LET v == mime_out.value
            plain == compute_av1_mime(codec_data, None).value
        IN IF ExpandsToDefaultSuffix
           THEN v = plain /\ Len(v) = 13
           ELSE /\ Len(v) = 30
                /\ SubSeq(v, 1, 13) = plain
                /\ SubSeq(v, 14, 30) # DefaultSuffix

\* C11 witness: the record of the test with the default colorimetry gave
\* av01.0.00M.08.
C11_Witness ==
    /\ ReturnedWithColor
    /\ ExpandsToDefaultSuffix
    /\ codec_data = <<129, 0, 12>>
    /\ mime_out.value = <<"a", "v", "0", "1", ".", "0", ".", "0", "0", "M", ".", "0", "8">>

\* two decimal digits of a number below 100
TwoDigits(n) == <<DigitChar[(n \div 10) + 1], DigitChar[(n % 10) + 1]>>
\* bit n of a byte, as a digit
BitChar(b, n) == DigitChar[((b \div (2 ^ n)) % 2) + 1]

\* C12: with a colorimetry whose suffix is not the default one the function
\* returns the base string followed by .m.xyp.PP.TT.MM.f: m bit 4 of byte 2,
\* x bit 3, y bit 2, p bits 1..0 of byte 2 when x and y are both 1 and 0
\* otherwise, PP, TT, MM the ISO numbers of primaries, transfer and matrix in
\* two digits, f 1 for full range and 0 otherwise; 0x81 0x04 0x6E with
\* BT.2020, SMPTE 2084, limited range gives av01.0.04M.10.0.112.09.16.09.0.
C12_ColorSuffix ==
    (ReturnedWithColor /\ ~ExpandsToDefaultSuffix) =>
        LET v == mime_out.value
            info == Unwrap(colorimetry)
            b == codec_data[3]
            both == (b \div 8) % 2 = 1 /\ (b \div 4) % 2 = 1
        IN /\ Len(v) = 30
           /\ SubSeq(v, 1, 13) = compute_av1_mime(codec_data, None).value
           /\ v[14] = "." /\ v[15] = BitChar(b, 4)
           /\ v[16] = "." /\ v[17] = BitChar(b, 3) /\ v[18] = BitChar(b, 2)
           /\ v[19] = (IF both THEN DigitChar[(b % 4) + 1] ELSE "0")
           /\ v[20] = "." /\ SubSeq(v, 21, 22) = TwoDigits(primaries_to_iso(info.primaries))
           /\ v[23] = "." /\ SubSeq(v, 24, 25) = TwoDigits(transfer_to_iso(info.transfer))
           /\ v[26] = "." /\ SubSeq(v, 27, 28) = TwoDigits(matrix_to_iso(info.matrix))
           /\ v[29] = "."
           /\ v[30] = (IF info.range = "Range0_255" THEN "1" ELSE "0")
           /\ (codec_data = <<129, 4, 110>> /\ info.primaries = "Bt2020"
                 /\ info.transfer = "Smpte2084" /\ info.matrix = "Bt2020"
                 /\ info.range = "Range16_235") =>
                  v = <<"a", "v", "0", "1", ".", "0", ".", "0", "4", "M", ".", "1", "0",
                        ".", "0", ".", "1", "1", "2", ".", "0", "9", ".", "1", "6",
                        ".", "0", "9", ".", "0">>

\* C12 witness: the record of the test with BT.2020 and SMPTE 2084 gave
\* av01.0.04M.10.0.112.09.16.09.0.
C12_Witness ==
    /\ ReturnedWithColor
    /\ codec_data = <<129, 4, 110>>
    /\ Unwrap(colorimetry).transfer = "Smpte2084"
    /\ SubSeq(mime_out.value, 14, 30) =
           <<".", "0", ".", "1", "1", "2", ".", "0", "9", ".", "1", "6",
             ".", "0", "9", ".", "0">>

----------------------------------------------------------------------------
(* Properties of the pending-deletion queue (Spec) *)

\* the entries whose file the step removed, in order
NewlyRemoved == SubSeq(removed', Len(removed) + 1, Len(removed'))
\* the paths the step popped from the front of the window
NewlyEvicted == {evicted'[i] : i \in (Len(evicted) + 1)..Len(evicted')}
\* the entries the step leaves queued or removed
EntriesAfter ==
    {trimmed_segments'[i] : i \in 1..Len(trimmed_segments')}
        \cup {removed'[i] : i \in 1..Len(removed')}

\* the removal_time of the entry of each segment the step evicts is the
\* date_time of that segment plus 20 s, plus its duration if with_duration
EvictedWithMargin(with_duration) ==
    \A i \in 1..Len(segments) :
        segments[i].path \in NewlyEvicted =>
            /\ \A e \in EntriesAfter :
                   e.path = segments[i].path =>
                       e.removal_time =
                           segments[i].date_time + 20 * TicksPerSecond
                               + (IF with_duration THEN segments[i].duration ELSE 0)
            /\ ~poisoned' => \E e \in EntriesAfter : e.path = segments[i].path

\* C13 as stated: the entry pushed for an evicted segment has removal_time =
\* date_time + duration + 20 s.
C13_Original == [][EvictedWithMargin(TRUE)]_vars

\* C13, amended: the entry pushed for an evicted segment has removal_time =
\* date_time of that segment + 20 s; the duration of the segment is not added.
C13_RemovalTimeIsStartPlusMargin == [][EvictedWithMargin(FALSE)]_vars

\* C13 witness: a segment of 2.5 s was evicted and its entry is queued.
C13_Witness ==
    /\ Len(evicted) = 1
    /\ Len(trimmed_segments) = 1
    /\ trimmed_segments[1].path = evicted[1]
    /\ last_sample # <<>>
    /\ last_sample[1].duration = 5
    /\ PublishedPlaylist(io_log)

\* the queue as the deletion scan of a completed update found it
QueueScanned == NewlyRemoved \o trimmed_segments'
\* a sample was delivered and its manifest update completed
UpdateCompleted == n_samples' = n_samples + 1 /\ PublishedPlaylist(io_log')

\* the update consumed the entry at the front of the queue: its file is
\* removed and its record dropped
FrontConsumed ==
    /\ NewlyRemoved # <<>>
    /\ ~(\E f \in segment_files' : f[1] = QueueScanned[1].path)
    /\ \A j \in 1..Len(trimmed_segments') :
           trimmed_segments'[j].path # QueueScanned[1].path

\* the update kept the entry at the front of the queue, with its file
FrontKept ==
    /\ NewlyRemoved = <<>>
    /\ trimmed_segments'[1] = QueueScanned[1]
    /\ \E f \in segment_files' : f[1] = QueueScanned[1].path

\* C14 as stated: a front entry whose removal_time is no later than the
\* date_time of the oldest segment of the window is consumed by the update.
C14_Original ==
    [][(UpdateCompleted /\ QueueScanned # <<>>
          /\ QueueScanned[1].removal_time <= segments'[1].date_time)
         => FrontConsumed]_vars

\* C14, amended: the entry at the front of the queue is consumed by a manifest
\* update exactly when its removal_time is strictly earlier than the date_time
\* of the oldest segment of the window; when the two are equal the update
\* keeps the entry and its file.
C14_ConsumedWhenStrictlyEarlier ==
    [][(UpdateCompleted /\ QueueScanned # <<>>) =>
         IF QueueScanned[1].removal_time < segments'[1].date_time
         THEN FrontConsumed ELSE FrontKept]_vars

\* C14 witness: an update found the front entry with removal_time equal to
\* the date_time of the oldest segment and left it queued: nothing was removed.
C14_Witness ==
    /\ PublishedPlaylist(io_log)
    /\ trimmed_segments # <<>>
    /\ trimmed_segments[1].removal_time = segments[1].date_time
    /\ \A i \in 1..Len(io_log) : io_log[i][1] # "remove"

----------------------------------------------------------------------------
(* Properties of the renditions' configuration (SetupSpec) *)

\* the time between the date_time of an evicted segment and its removal_time
RetentionMargin ==
    removal_time_of([duration |-> 0, path |-> <<>>, date_time |-> 0])

\* C15: for every fragment duration d a muxer is configured with, the margin
\* added to the date_time of an evicted segment is at least 5 times d.
C15_MarginCoversWindow ==
    \A i \in 1..Len(mux_fragment_duration) :
        RetentionMargin >= 5 * mux_fragment_duration[i].fragment_duration

----------------------------------------------------------------------------
(* Properties of the racing probes (ProbeSpec) *)

AllProbesDone == \A name \in DOMAIN pc : pc[name] = "done"

\* C16: whatever the interleaving of the probes, write_manifest runs at most
\* once, in the probe whose insert completed all_mimes; once every probe has
\* reported and released the mutex the master manifest is written, once;
\* and outside the critical sections all_mimes is never complete with the
\* manifest unwritten, unless creating or writing the file panicked.
C16_WrittenOnceUnderRaces ==
    /\ master_writes <= 1
    /\ IsSome(writer) => writer = completer
    /\ AllProbesDone =>
           /\ master_writes = 1
           /\ wrote_manifest
           /\ IsSome(master_file) /\ Unwrap(master_file).complete
    /\ (IsNone(lock_holder) /\ ~state_poisoned
          /\ Cardinality(ReportedNames) = ExpectedCount) => wrote_manifest

\* C16 witness: four renditions reported, the one that reported last wrote
\* the manifest, and it was not the last in the ladder.
C16_Witness ==
    /\ ExpectedCount >= 4
    /\ AllProbesDone
    /\ master_writes = 1
    /\ writer = completer
    /\ writer # Some("audio_0")

----------------------------------------------------------------------------
(* Further properties of the master playlist coordinator (CoordSpec) *)

\* C17: wrote_manifest is true only when the master manifest has been created
\* and written in full; when File::create or write_to fails the probe panics
\* with wrote_manifest still false, and it stays false.
C17_FlagOnlyAfterWrite ==
    /\ wrote_manifest =>
           /\ IsSome(master_file)
           /\ Unwrap(master_file).complete
           /\ Len(Unwrap(master_file).variants) = Len(video_streams)
           /\ ~state_poisoned
    /\ state_poisoned => ~wrote_manifest /\ master_writes = 1
    /\ (IsSome(master_file) /\ ~Unwrap(master_file).complete) =>
           state_poisoned /\ ~wrote_manifest

\* C17 witness: write_to failed on the created file: the probe panicked and
\* wrote_manifest is false.
C17_Witness ==
    /\ state_poisoned
    /\ master_file = Some(TruncatedFile)
    /\ ~wrote_manifest
    /\ Cardinality(ReportedNames) = ExpectedCount

\* C18: a report under a name that is already in all_mimes leaves the number
\* of entries unchanged (one entry per name, whatever the codec string) and
\* does not run write_manifest; write_manifest runs only when every rendition
\* has reported, however often some of them have.
C18_RepeatedReportsDoNotCount ==
    [][/\ ReportedNames' = ReportedNames =>
              /\ Cardinality(all_mimes') = Cardinality(all_mimes)
              /\ master_writes' = master_writes
       /\ Cardinality(all_mimes') = Cardinality(ReportedNames')
       /\ master_writes' > master_writes =>
              ReportedNames' = StreamNames(Coord)]_vars

\* C18 witness: one of two renditions reported three times, with both codec
\* strings; all_mimes holds one entry and nothing is written.
C18_Witness ==
    /\ ExpectedCount = 2
    /\ n_reports = 3
    /\ Cardinality(all_mimes) = 1
    /\ master_writes = 0
    /\ ~state_poisoned

\* C19: the master playlist, when it is written, holds one variant per video
\* rendition, in the ladder's order, with the URI name/manifest.m3u8 and the
\* codec string that all_mimes holds under that rendition's name at that
\* moment, and one alternative audio entry per audio rendition.
C19_MasterListsEveryRendition ==
    [][(master_writes' > master_writes /\ wrote_manifest') =>
         LET m == Unwrap(master_file')
         IN /\ Len(m.variants) = Len(video_streams)
            /\ \A i \in 1..Len(video_streams) :
                   /\ m.variants[i].uri = <<video_streams[i].name, "/", "manifest.m3u8">>
                   /\ \E mime \in Mimes :
                          /\ m.variants[i].codecs = Some(mime)
                          /\ <<video_streams[i].name, mime>> \in all_mimes'
            /\ Len(m.alternatives) = Len(audio_streams)
            /\ \A j \in 1..Len(audio_streams) :
                   /\ m.alternatives[j].name = audio_streams[j].name
                   /\ m.alternatives[j].uri =
                          Some(<<audio_streams[j].name, "/", "manifest.m3u8">>)]_vars

\* C19 witness: a ladder of four video renditions was written with different
\* codec strings for its first two variants, each rendition having reported once.
C19_Witness ==
    /\ wrote_manifest
    /\ Len(video_streams) = 4
    /\ n_reports = ExpectedCount
    /\ Unwrap(master_file).variants[1].codecs # Unwrap(master_file).variants[2].codecs
    /\ Len(Unwrap(master_file).alternatives) = 1

----------------------------------------------------------------------------
(* Framing violations (Spec) *)

\* the StreamState and the storage of the rendition are as they were
PublisherUntouched ==
    /\ segments' = segments
    /\ trimmed_segments' = trimmed_segments
    /\ segment_index' = segment_index
    /\ media_sequence' = media_sequence
    /\ start_date_time' = start_date_time
    /\ start_time' = start_time
    /\ header_file' = header_file
    /\ segment_files' = segment_files
    /\ manifest_file' = manifest_file

\* C20: a sample whose buffer list is empty or starts with a DELTA_UNIT
\* buffer makes the callback panic before it does anything: nothing is
\* published and the StreamState is not modified; the eos callback, the only
\* other step of a live rendition, panics in the same way.
C20_FramingViolationIsFatal ==
    [][/\ (n_samples' = n_samples + 1
            /\ (last_sample' = <<>> \/ DELTA_UNIT \in last_sample'[1].flags)) =>
              poisoned' /\ io_log' = <<>> /\ PublisherUntouched
       /\ (n_samples' = n_samples /\ poisoned' # poisoned) =>
              poisoned' /\ io_log' = <<>> /\ PublisherUntouched]_vars

\* C20 witness: in a running stream a list starting with a buffer flagged
\* HEADER and DELTA_UNIT arrived and the callback panicked with nothing
\* published.
C20_Witness ==
    /\ poisoned
    /\ last_sample # <<>>
    /\ last_sample[1].flags = {HEADER, DELTA_UNIT}
    /\ io_log = <<>>
    /\ Len(segments) >= 2
    /\ segment_index = Len(segments) + media_sequence

----------------------------------------------------------------------------
(* Header updates and the clock anchors (Spec) *)

\* the sample delivered by the step is a single DISCONT+HEADER buffer
HeaderOnlyDelivered ==
    /\ n_samples' = n_samples + 1
    /\ Len(last_sample') = 1
    /\ last_sample'[1].flags = {DISCONT, HEADER}

\* C21: a sample made of a single DISCONT+HEADER buffer publishes init.mp4
\* once, with the bytes of that buffer, and nothing else; the segment index,
\* media_sequence, the window, the pending-deletion queue, both anchors, the
\* segment files and the playlist stay as they were, wherever in the stream
\* the sample arrives.
C21_HeaderOnlyGroup ==
    [][HeaderOnlyDelivered =>
         /\ ~poisoned' =>
                /\ io_log' = <<<<"header", "init.mp4">>>>
                /\ header_file' = Some(last_sample'[1].payload)
         /\ segments' = segments
         /\ trimmed_segments' = trimmed_segments
         /\ segment_index' = segment_index
         /\ media_sequence' = media_sequence
         /\ start_time' = start_time
         /\ start_date_time' = start_date_time
         /\ segment_files' = segment_files
         /\ manifest_file' = manifest_file]_vars

\* C21 witness: a header update arrived in a running stream whose window had
\* already moved; init.mp4 was published and nothing else.
C21_Witness ==
    /\ ~poisoned
    /\ Len(last_sample) = 1
    /\ last_sample[1].flags = {DISCONT, HEADER}
    /\ io_log = <<<<"header", "init.mp4">>>>
    /\ header_file = Some(last_sample[1].payload)
    /\ media_sequence >= 1
    /\ IsSome(manifest_file)

\* the step handles the first media fragment of the stream
FirstMediaHandled == IsNone(start_time) /\ IsSome(start_time')

\* the first buffer of the media fragment of a sample
MediaBufferOf(buffer_list) ==
    IF buffer_list[1].flags = {DISCONT, HEADER} THEN buffer_list[2] ELSE buffer_list[1]

\* C22: start_time and start_date_time are None until the first media
\* fragment; handling it sets start_time to its pts and start_date_time to
\* the wall clock reading minus the time the running clock is ahead of that
\* pts; once set, neither is changed by any later step, whatever the clocks
\* read then.
C22_AnchorsSetOnce ==
    [][/\ IsSome(start_date_time) => IsSome(start_time)
       /\ (segment_index = 0 /\ ~poisoned) => IsNone(start_time)
       /\ FirstMediaHandled =>
              /\ start_time' = Some(MediaBufferOf(last_sample').pts)
              /\ IsNone(start_date_time)
              /\ \E now_utc \in WallClock, lag \in ClockLags :
                     start_date_time' = Some(now_utc - lag)
       /\ IsSome(start_time) => start_time' = start_time
       /\ IsSome(start_date_time) => start_date_time' = start_date_time]_vars

\* C22 witness: the anchors were taken at a first fragment with pts 3 s and
\* later fragments, arriving after a gap, have left them alone.
C22_Witness ==
    /\ start_time = Some(6)
    /\ IsSome(start_date_time)
    /\ n_jumps >= 1
    /\ Unwrap(last_pts) > 40
    /\ Len(segments) >= 3
    /\ ~poisoned

----------------------------------------------------------------------------
(* Segment names, timestamps and the playlist (Spec) *)

\* the storage names of all segments created so far, in order of creation
CreatedPaths == evicted \o [i \in 1..Len(segments) |-> segments[i].path]

\* k in 5 digits followed by .mp4
NameOfIndex(k) ==
    <<DigitChar[((k \div 10000) % 10) + 1], DigitChar[((k \div 1000) % 10) + 1],
      DigitChar[((k \div 100) % 10) + 1], DigitChar[((k \div 10) % 10) + 1],
      DigitChar[(k % 10) + 1], ".", "m", "p", "4">>

\* C23: segment_index starts at 0 and counts the media fragments handled;
\* the k-th of them (from 0) is stored under k in 5 digits plus .mp4, so no
\* two segments share a name, and the files on storage are those of the
\* segments created and not removed.
C23_IndexNamesSegments ==
    /\ \A k \in 1..Len(CreatedPaths) : CreatedPaths[k] = NameOfIndex(k - 1)
    /\ \A j, k \in 1..Len(CreatedPaths) : j # k => CreatedPaths[j] # CreatedPaths[k]
    /\ ~poisoned => segment_index = Len(CreatedPaths)
    /\ segment_index \in {Len(CreatedPaths), Len(CreatedPaths) + 1}
    /\ ~poisoned =>
           {f[1] : f \in segment_files} =
               {CreatedPaths[k] : k \in 1..Len(CreatedPaths)}
                   \ {removed[i].path : i \in 1..Len(removed)}

\* C23 witness: eight segments were created, 00000 to 00007, some evicted
\* and one removed from storage.
C23_Witness ==
    /\ ~poisoned
    /\ segment_index = 8
    /\ Len(evicted) = 3
    /\ removed # <<>>
    /\ Back(segments).path = <<"0", "0", "0", "0", "7", ".", "m", "p", "4">>

\* the step appended a segment to the window
SegmentAppended ==
    /\ n_samples' = n_samples + 1
    /\ segments' # <<>>
    /\ CreatedPaths' # CreatedPaths

\* C24: the date_time of a segment is start_date_time + (pts - start_time),
\* pts being that of the first buffer of its fragment; the first segment gets
\* start_date_time itself, and a segment and the one created before it differ
\* in date_time by the difference of their pts, whenever each was handled.
C24_DateTimeFromAnchors ==
    [][SegmentAppended =>
         LET pts == MediaBufferOf(last_sample').pts
         IN /\ Back(segments').date_time =
                   Unwrap(start_date_time') + (pts - Unwrap(start_time'))
            /\ segment_index = 0 =>
                   Back(segments').date_time = Unwrap(start_date_time')
            /\ segments # <<>> =>
                   Back(segments').date_time - Back(segments).date_time
                       = pts - Unwrap(last_pts)]_vars

\* C24 witness: the stream started at pts 3 s and a segment was appended
\* after a gap of 21 s, with the wall clock having stepped back meanwhile.
C24_Witness ==
    /\ start_time = Some(6)
    /\ start_date_time = Some(999)
    /\ Len(segments) >= 2
    /\ Back(segments).date_time - segments[Len(segments) - 1].date_time = 42
    /\ Back(segments).date_time = 999 + (Unwrap(last_pts) - 6)

\* the positions of the operations of one kind in the log of the latest callback
LogPositions(kind) == {i \in 1..Len(io_log) : io_log[i][1] = kind}

\* the latest sample carried a media fragment and was handled to the end
MediaGroupHandled ==
    /\ ~poisoned
    /\ last_sample # <<>>
    /\ \E i \in 1..Len(last_sample) : last_sample[i].flags = {HEADER}

\* C25: a callback publishes at most one segment and at most one playlist; a
\* playlist is published only as the last operation of a callback that
\* published a segment before it, with nothing but file removals in between,
\* and it lists that segment as its newest; every media fragment handled to
\* the end publishes both.
C25_SegmentThenPlaylist ==
    /\ Cardinality(LogPositions("segment")) <= 1
    /\ Cardinality(LogPositions("manifest")) <= 1
    /\ \A m \in LogPositions("manifest") :
           /\ m = Len(io_log)
           /\ \E s \in LogPositions("segment") :
                  /\ s < m
                  /\ \A i \in (s + 1)..(m - 1) : io_log[i][1] = "remove"
                  /\ io_log[s][2] = Back(segments).path
                  /\ Back(Unwrap(manifest_file).segments).uri = io_log[s][2]
                  /\ \E f \in segment_files : f[1] = io_log[s][2]
    /\ \A r \in LogPositions("remove") :
           \E s \in LogPositions("segment") : s < r
    /\ MediaGroupHandled =>
           LogPositions("segment") # {} /\ LogPositions("manifest") # {}

\* C25 witness: one callback published init.mp4, a segment, removed two
\* files and published the playlist, in that order.
C25_Witness ==
    /\ Len(io_log) = 5
    /\ io_log[1][1] = "header"
    /\ io_log[2][1] = "segment"
    /\ io_log[3][1] = "remove"
    /\ io_log[4][1] = "remove"
    /\ io_log[5][1] = "manifest"

\* C26: a published playlist lists the segments of the window, oldest first,
\* one entry each; the first entry carries the map init.mp4 and the
\* date_time of its segment as program date time, no other entry carries
\* either.
C26_PlaylistMirrorsWindow ==
    PublishedPlaylist(io_log) =>
        LET entries == Unwrap(manifest_file).segments
        IN /\ Len(entries) = Len(segments)
           /\ \A i \in 1..Len(segments) :
                  /\ entries[i].uri = segments[i].path
                  /\ entries[i].duration = segments[i].duration
                  /\ i = 1 => /\ entries[i].map = Some("init.mp4")
                              /\ entries[i].program_date_time = Some(segments[i].date_time)
                  /\ i > 1 => /\ entries[i].map = None
                              /\ entries[i].program_date_time = None

\* C26 witness: a playlist of five entries was published after the window
\* had moved twice; its first entry is the segment 00002.
C26_Witness ==
    /\ PublishedPlaylist(io_log)
    /\ media_sequence = 2
    /\ Len(Unwrap(manifest_file).segments) = 5
    /\ Unwrap(manifest_file).segments[1].uri = NameOfIndex(2)
    /\ Unwrap(manifest_file).segments[1].map = Some("init.mp4")
    /\ Unwrap(manifest_file).segments[5].map = None

\* the target duration of a published playlist is the one computed from
\* the duration of the newest segment of the window, and for segments of
\* whole ticks it is that duration rounded up to whole seconds
TargetDurationOfNewestSegment ==
    PublishedPlaylist(io_log) =>
        LET d == Back(segments).duration
            whole == d \div TicksPerSecond
        IN Unwrap(manifest_file).target_duration
               = IF whole * TicksPerSecond = d THEN whole ELSE whole + 1

\* the newest segment lasts 2.5 s behind segments of 2 s, and the playlist
\* says 3
TargetDurationOfNewestSegment_Reached ==
    /\ PublishedPlaylist(io_log)
    /\ Len(segments) >= 2
    /\ Back(segments).duration = 5
    /\ segments[1].duration = 4
    /\ Unwrap(manifest_file).target_duration = 3

\* the duration rounded up to a whole number of seconds
RoundedUp(ct) == IF ct.nanos = 0 THEN ct.seconds ELSE ct.seconds + 1

\* C27 as stated: the target duration is the duration of the newest segment
\* rounded up to a whole number of seconds.
C27_Original ==
    IsSome(target_duration_f32) =>
        Unwrap(target_duration_f32) = RoundedUp(newest_duration)

\* C27: the target duration is the duration of the newest segment as a
\* single-precision number of seconds, rounded up: it is the duration
\* rounded up to whole seconds unless the duration is at least a second and
\* exceeds a whole second by no more than 256 ns, where it can be that whole
\* second instead, and is that whole second up to an excess of 32 ns.
C27_TargetDurationIsF32Ceiling ==
    IsSome(target_duration_f32) =>
        LET target == Unwrap(target_duration_f32)
            ct == newest_duration
            tiny == ct.seconds >= 1 /\ ct.nanos \in 1..256
        IN /\ ~tiny => target = RoundedUp(ct)
           /\ tiny => target \in {ct.seconds, RoundedUp(ct)}
           /\ (ct.seconds >= 1 /\ ct.nanos \in 1..32) => target = ct.seconds

\* C27 witness: a segment of 2 s and 1 ns got the target duration 2.
C27_Witness ==
    /\ newest_duration = ClockTime(2, 1)
    /\ target_duration_f32 = Some(2)

----------------------------------------------------------------------------
(* The pending-deletion queue and the footprint on disk *)

\* C28: fed by a muxer whose timestamps never decrease, the pending-deletion
\* queue is ordered by removal time from front to back in every state, so
\* behind a front entry that is not yet due no entry is due.
C28_QueueOrderedByRemovalTime ==
    /\ \A i, j \in 1..Len(trimmed_segments) :
           i < j => trimmed_segments[i].removal_time
                        <= trimmed_segments[j].removal_time
    /\ (trimmed_segments # <<>> /\ segments # <<>>
            /\ ~due(Front(trimmed_segments), Front(segments)))
           => \A i \in 1..Len(trimmed_segments) :
                  ~due(trimmed_segments[i], Front(segments))

\* C28 witness: three entries with three different removal times wait in
\* the queue after a scan that stopped at its first entry.
C28_Witness ==
    /\ PublishedPlaylist(io_log)
    /\ Len(trimmed_segments) >= 3
    /\ trimmed_segments[1].removal_time < trimmed_segments[2].removal_time
    /\ trimmed_segments[2].removal_time < trimmed_segments[3].removal_time
    /\ removed = <<>>

\* C29: fed timestamps that never decrease, no manifest update removes the
\* file of a segment that the same update evicted from the window.
C29_DeletionLagsEviction ==
    [][\A i \in 1..Len(NewlyRemoved) : NewlyRemoved[i].path \notin NewlyEvicted]_vars

----------------------------------------------------------------------------
(* Storage failures (Spec) *)

\* the latest callback left a storage operation of its sample undone: the
\* header of a list that starts with the media header, the segment or the
\* playlist of a list that carries a media fragment, or the removal of a
\* queued file that is due
OperationUndone ==
    /\ last_sample # <<>>
    /\ \/ /\ last_sample[1].flags = {DISCONT, HEADER}
          /\ LogPositions("header") = {}
       \/ /\ \E i \in 1..Len(last_sample) : last_sample[i].flags = {HEADER}
          /\ LogPositions("segment") = {} \/ LogPositions("manifest") = {}
       \/ /\ trimmed_segments # <<>> /\ segments # <<>>
          /\ due(Front(trimmed_segments), Front(segments))

\* a segment index was taken for a segment that never entered the window
SegmentPublishFailed == segment_index > Len(CreatedPaths)

\* C31: a callback that leaves one of its storage operations undone leaves
\* the rendition failed; from then on no callback changes the header, the
\* segment files, the playlist or the state of the rendition, and the
\* playlist on storage never lists a segment whose index was taken without
\* the segment entering the window.
C31_StorageFailureStopsPublishing ==
    [][/\ OperationUndone' => poisoned'
       /\ poisoned =>
              /\ poisoned'
              /\ UNCHANGED <<header_file, segment_files, manifest_file, io_log,
                             segments, trimmed_segments, segment_index,
                             media_sequence, removed, evicted>>
       /\ (SegmentPublishFailed' /\ IsSome(manifest_file')) =>
              \A i \in 1..Len(Unwrap(manifest_file').segments) :
                  Unwrap(manifest_file').segments[i].uri
                      # NameOfIndex(segment_index' - 1)]_vars

\* C31 witness: the third segment could not be written; the rendition is
\* failed, the file is not on storage and the playlist on storage is the one
\* of the second segment.
C31_Witness ==
    /\ poisoned
    /\ segment_index = 3
    /\ Len(segments) = 2
    /\ ~(\E f \in segment_files : f[1] = NameOfIndex(2))
    /\ IsSome(manifest_file)
    /\ Len(Unwrap(manifest_file).segments) = 2
    /\ LogPositions("segment") = {}

----------------------------------------------------------------------------
(* Bit depth and short records in compute_av1_mime (MimeSpec) *)

\* the two digits of the bit depth in a returned string
BitDepthDigits == SubSeq(mime_out.value, 12, 13)

\* C32: for every seq_profile 0..7 (bits 7..5 of byte 1), high_bitdepth
\* (bit 6 of byte 2) and twelve_bit (bit 5 of byte 2) the bit depth written
\* is 12 exactly for profile 2 with both bits set, 10 for every other case
\* with high_bitdepth set, and 08 whenever high_bitdepth is clear.
C32_BitDepthResolution ==
    mime_out.outcome = "returned" =>
        LET profile == codec_data[2] \div 32
            high == (codec_data[3] \div 64) % 2
            twelve == (codec_data[3] \div 32) % 2
        IN /\ BitDepthDigits = <<"1", "2">>
                  <=> (profile = 2 /\ high = 1 /\ twelve = 1)
           /\ BitDepthDigits = <<"1", "0">>
                  <=> (high = 1 /\ ~(profile = 2 /\ twelve = 1))
           /\ BitDepthDigits = <<"0", "8">> <=> high = 0

\* C32 witness: profile 1 with high_bitdepth and twelve_bit both set was
\* given 10 bits.
C32_Witness ==
    /\ mime_out.outcome = "returned"
    /\ codec_data[2] \div 32 = 1
    /\ (codec_data[3] \div 32) % 4 = 3
    /\ BitDepthDigits = <<"1", "0">>

\* C33: called with a record of 0, 1 or 2 bytes the function panics and
\* returns no string; called with 3 bytes or more it returns a string, and
\* the string is the one of the record cut to 3 bytes with another byte 0:
\* only bytes 1 and 2 are read.
C33_ShortRecordIsFatal ==
    mime_out.outcome # "none" =>
        IF Len(codec_data) < 3
        THEN mime_out.outcome = "panicked" /\ mime_out.value = <<>>
        ELSE /\ mime_out.outcome = "returned"
             /\ Len(mime_out.value) >= 13
             /\ mime_out.value =
                    compute_av1_mime(<<0, codec_data[2], codec_data[3]>>,
                                     colorimetry).value

\* C33 witness: a record of 2 bytes made the call panic.
C33_Witness ==
    /\ Len(codec_data) = 2
    /\ mime_out.outcome = "panicked"
    /\ mime_out.value = <<>>

----------------------------------------------------------------------------
(* Counters, window and files (Spec) *)

\* C34: after every media group that was handled to the end segment_index is
\* media_sequence plus the length of the window, the window holds the
\* segments of the indexes media_sequence .. segment_index - 1 in ascending
\* order, and the first entry of the playlist on storage is the segment whose
\* index is the media_sequence of that playlist.
C34_CountersAgreeWithWindow ==
    /\ ~poisoned =>
           /\ segment_index = media_sequence + Len(segments)
           /\ \A i \in 1..Len(segments) :
                  segments[i].path = NameOfIndex(media_sequence + i - 1)
    /\ IsSome(manifest_file) =>
           LET playlist == Unwrap(manifest_file)
           IN /\ playlist.segments # <<>>
              /\ playlist.segments[1].uri = NameOfIndex(playlist.media_sequence)
              /\ ~poisoned => playlist.media_sequence = media_sequence

\* C34 witness: eight segments were handled, three left the window, and the
\* playlist starts at 00003.mp4 with media sequence 3.
C34_Witness ==
    /\ ~poisoned
    /\ segment_index = 8
    /\ media_sequence = 3
    /\ Len(segments) = 5
    /\ Unwrap(manifest_file).media_sequence = 3
    /\ Unwrap(manifest_file).segments[1].uri = NameOfIndex(3)

\* the segment names a playlist lists
UrisOf(playlist_file) ==
    IF IsNone(playlist_file) THEN {}
    ELSE {Unwrap(playlist_file).segments[i].uri :
              i \in 1..Len(Unwrap(playlist_file).segments)}

\* C35: every name listed in the playlist on storage is the name of a
\* segment file on storage, and a file that an update removes is neither in
\* the window nor listed in the playlist that is on storage while it is
\* removed, which is the playlist published by the update before.
C35_ListedSegmentsExist ==
    [][/\ \A uri \in UrisOf(manifest_file') : \E f \in segment_files' : f[1] = uri
       /\ \A i \in 1..Len(NewlyRemoved) :
              /\ NewlyRemoved[i].path \notin UrisOf(manifest_file)
              /\ \A j \in 1..Len(segments') :
                     segments'[j].path # NewlyRemoved[i].path]_vars

\* the names of the segment files ever written, of the segments of the
\* window, of the entries of the queue and of the files removed
EverPublished ==
    {f[1] : f \in segment_files} \cup {removed[i].path : i \in 1..Len(removed)}
InWindow == {segments[i].path : i \in 1..Len(segments)}
InQueue == {trimmed_segments[i].path : i \in 1..Len(trimmed_segments)}
Deleted == {removed[i].path : i \in 1..Len(removed)}

\* each segment ever published is in exactly one of the window, the queue
\* and the deleted segments
AccountedExactlyOnce ==
    /\ EverPublished = InWindow \cup InQueue \cup Deleted
    /\ InWindow \cap InQueue = {}
    /\ InWindow \cap Deleted = {}
    /\ InQueue \cap Deleted = {}
    /\ Cardinality(InWindow) = Len(segments)
    /\ Cardinality(InQueue) = Len(trimmed_segments)

\* every removal was that of the file of a segment that had been published
\* and evicted, the file is gone, and no name was removed twice
DeletionsAreOfEvicted ==
    /\ \A i \in 1..Len(removed) :
           /\ \E j \in 1..Len(evicted) : evicted[j] = removed[i].path
           /\ \E k \in 0..(segment_index - 1) : removed[i].path = NameOfIndex(k)
           /\ ~(\E f \in segment_files : f[1] = removed[i].path)
    /\ Cardinality(Deleted) = Len(removed)

----------------------------------------------------------------------------
(* Initialization data and target duration of the playlist (Spec) *)

\* C37: whenever a playlist is on storage, init.mp4, which its first entry
\* names as its map, has been published before.
C37_InitBeforePlaylist ==
    IsSome(manifest_file) =>
        /\ Unwrap(manifest_file).segments[1].map = Some("init.mp4")
        /\ IsSome(header_file)

\* C38: the target duration of the playlist on storage is at least the
\* duration, rounded up to whole seconds, of every segment it lists.
C38_TargetDurationCoversAll ==
    IsSome(manifest_file) =>
        LET playlist == Unwrap(manifest_file)
        IN \A i \in 1..Len(playlist.segments) :
               playlist.target_duration * TicksPerSecond
                   >= playlist.segments[i].duration

----------------------------------------------------------------------------
(* Progress of the deletions (LiveSpec) *)

\* the segments that leave the window early enough for the slowest stream
\* of the model, contiguous 2 s fragments, to reach their removal
EarlySegments == 0..(MaxLongGroups - 16)

\* C39: while media groups keep arriving with strictly increasing pts, every
\* entry that enters the pending-deletion queue is taken out of it again and
\* its file removed, unless the rendition fails before.
C39_EvictedEventuallyDeleted ==
    \A k \in EarlySegments :
        (NameOfIndex(k) \in InQueue)
            ~> (\/ /\ NameOfIndex(k) \in Deleted
                   /\ NameOfIndex(k) \notin InQueue
                   /\ ~(\E f \in segment_files : f[1] = NameOfIndex(k))
                \/ poisoned)

\* C39 witness: the file of the segment 00001 was removed after its entry
\* had waited in the queue, and the rendition runs.
C39_Witness ==
    /\ ~poisoned
    /\ NameOfIndex(1) \in Deleted
    /\ NameOfIndex(1) \notin InQueue
    /\ ~(\E f \in segment_files : f[1] = NameOfIndex(1))
    /\ Len(trimmed_segments) >= 2

=============================================================================
